---- MODULE Spec2Model ----
(***************************************************************************)
(* A model of the turn-execution engine of agentic-chatbot:                *)
(*   - run_callback_with_events   (src/app/agents/callbacks.py)            *)
(*   - BaseTool.execute           (src/app/agents/tools/base.py)           *)
(*   - BaseAgent.process_turn     (src/app/agents/base.py)                 *)
(*   - LLMAgent._process_turn     (src/app/agents/llm_agent.py)            *)
(*   - ChatService.process_message (src/app/services/chat_service.py)      *)
(* Every async generator is a small step machine: pc is the position of    *)
(* the generator that is running, events is the stream its consumer has    *)
(* received so far.                                                        *)
(***************************************************************************)
EXTENDS Naturals, Sequences, FiniteSets, TLC

VARIABLES
    pc,          \* position of the running generator
    events,      \* the events the caller of the outermost generator received
    ctx,         \* CallbackContext: the slots modified_input, tool_input, tool_result
    cb,          \* frame of run_callback_with_events: its arguments and the callback's behaviour
    tool,        \* frame of BaseTool.execute: the request, the hooks, the parsed arguments
    agent,       \* BaseAgent fields: the two hook references
    turn,        \* locals of process_turn / _process_turn
    messages,    \* the message list of _process_turn
    loopEvents,  \* the events _process_turn itself has yielded
    modelCalls,  \* one entry per provider call: the messages it was given
    chat,        \* locals of ChatService.process_message and what its client received
    db,          \* the tables of messages and of traces
    other,       \* a second turn on the same agent, while it is not the one running
    consumer,    \* whether the consumer of the outermost generator still reads it
    llm,         \* frame of LLM.call: the hook references and what the provider did
    storage      \* frame of StorageService.refresh_citations_signed_urls

vars == <<pc, events, ctx, cb, tool, agent, turn, messages, loopEvents, modelCalls,
          chat, db, other, consumer, llm, storage>>

\* the state outside the turn engine
env == <<chat, db, other, consumer, llm, storage>>

\* the state of the turn engine, which the dispatcher and the tool protocol leave alone
rest == <<agent, turn, messages, loopEvents, modelCalls, env>>

----------------------------------------------------------------------------
(* Bounds *)

\* events a streaming callback yields, at most
MaxYield == 2
\* events a hook of a tool, or a streaming tool body, yields, at most
MaxHookYield == 1
\* tool calls the model requests in one turn, at most (over all its responses)
MaxToolCalls == 2

----------------------------------------------------------------------------
(* Python values.  A value is a tag and a text; None, "" and {} are falsy. *)

Val(t, v) == [t |-> t, v |-> v]
NoneV == Val("none", "")
StrV(s) == Val("str", s)
\* a dict is written by its JSON text; the empty dict is "{}"
DictV(s) == Val("dict", s)
IntV(s) == Val("int", s)

IsNone(x) == x.t = "none"
IsStr(x) == x.t = "str"
IsDict(x) == x.t = "dict"

\* bool(x)
Truthy(x) ==
    CASE x.t = "none" -> FALSE
      [] x.t = "str" -> x.v # ""
      [] x.t = "dict" -> x.v # "{}"
      [] x.t = "int" -> x.v # "0"
      [] OTHER -> TRUE

\* str(x), also what an f-string prints for x
Str(x) ==
    CASE x.t = "none" -> "None"
      [] OTHER -> x.v

\* type(x).__name__
TypeName(x) ==
    CASE x.t = "none" -> "NoneType"
      [] x.t = "dict" -> "dict"
      [] x.t = "int" -> "int"
      [] x.t = "list" -> "list"
      [] x.t = "params" -> "LLMCallParams"
      [] x.t = "result" -> "LLMCallResult"
      [] OTHER -> "str"

----------------------------------------------------------------------------
(* AgentEvent *)

AgentEvent(type, content, tool_name, tool_args, tool_call_id, callback_type) ==
    [type |-> type, content |-> content, tool_name |-> tool_name,
     tool_args |-> tool_args, tool_call_id |-> tool_call_id,
     callback_type |-> callback_type]

\* AgentEvent(type=..., content=...): the optional fields default to None
PlainEvent(type, content) == AgentEvent(type, content, "None", NoneV, "None", "None")

\* AgentEvent(type=..., content=..., callback_type=...)
CallbackEvent(type, content, callback_type) ==
    AgentEvent(type, content, "None", NoneV, "None", callback_type)

Types(s) == [i \in DOMAIN s |-> s[i].type]
Count(s, type) == Cardinality({i \in DOMAIN s : s[i].type = type})

\* events a callback or a tool body makes up itself
UThought == PlainEvent("thought", "working")
UToolResult == PlainEvent("tool_result", "partial")
UMarker == PlainEvent("execute_callback", "Before")
UError == PlainEvent("error", "reported by the callback")
UAnswer == PlainEvent("answer", "hook answer")

----------------------------------------------------------------------------
(* CallbackContext *)

\* CallbackContext.__init__: every slot starts unset
CallbackContext ==
    [modified_input |-> NoneV, tool_input |-> NoneV, tool_result |-> NoneV,
     llm_params |-> NoneV, llm_result |-> NoneV]

\* no call of refresh_citations_signed_urls
NoStorage == [present |-> FALSE]

\* the turn engine's state while no turn runs
NoAgent == [present |-> FALSE]
NoTurn == [present |-> FALSE]
NoChat == [present |-> FALSE]
NoDb == [messages |-> <<>>, traces |-> <<>>]
NoOther == [present |-> FALSE]
Reading == [stopped |-> FALSE, at |-> "None"]
NoLlm == [present |-> FALSE]

----------------------------------------------------------------------------
(* What a callback or a tool body does when it is called.                  *)
(*   asyncgen      an async generator: yields `yields`, then writes        *)
(*                 `write` into the context, then raises if `raises`       *)
(*   coroutine     an async def: awaiting it gives `ret`, or raises        *)
(*   sync          a plain def returning `ret`, which is not awaitable     *)
(*   raise_on_call the call itself raises (a plain def that raises, or a   *)
(*                 signature the arguments do not fit)                     *)

NoWrite == Val("nowrite", "")

Ret(shape, val, evs) == [shape |-> shape, val |-> val, evs |-> evs]
NoRet == Ret("value", NoneV, <<>>)

Behaviour(kind, yields, write, raises, ret, exc, msg) ==
    [kind |-> kind, yields |-> yields, write |-> write, raises |-> raises,
     ret |-> ret, exc |-> exc, msg |-> msg]

NoBehaviour == Behaviour("none", <<>>, NoWrite, FALSE, NoRet, "", "")

SeqsUpTo(S, n) == UNION {[1..k -> S] : k \in 0..n}

\* async generators over the events evs, each of at most n yields
Streaming(evs, n, writes) ==
    {Behaviour("asyncgen", y, w, r, NoRet, "ValueError", "Oops") :
        y \in SeqsUpTo(evs, n), w \in writes \cup {NoWrite}, r \in BOOLEAN}

\* coroutines and plain functions, by what they return
Returning(vals, evs, n) ==
    {Behaviour("coroutine", <<>>, NoWrite, FALSE, Ret("value", v, <<>>), "", "") :
        v \in vals \cup {NoneV}}
    \cup {Behaviour("coroutine", <<>>, NoWrite, FALSE, Ret("event", NoneV, <<e>>), "", "") :
        e \in evs}
    \cup {Behaviour("coroutine", <<>>, NoWrite, FALSE, Ret(sh, NoneV, l), "", "") :
        sh \in {"list", "tuple"}, l \in SeqsUpTo(evs, n)}
    \cup {Behaviour("coroutine", <<>>, NoWrite, TRUE, NoRet, "ValueError", "Oops"),
          Behaviour("raise_on_call", <<>>, NoWrite, TRUE, NoRet, "ValueError", "Oops")}
    \cup {Behaviour("sync", <<>>, NoWrite, FALSE, Ret("value", v, <<>>), "", "") :
        v \in vals \cup {NoneV}}

\* the values the callbacks of the model write or return
SlotValues == {StrV(""), StrV("HI"), DictV("{}"), DictV("{query: math}")}
ToolInputs == {DictV("{}"), DictV("{q: y}"), StrV("not a dict")}
ToolResults == {StrV(""), StrV("rewritten"), DictV("{r: 1}")}
LlmParams == {Val("params", "gpt-4o-mini"), StrV("not params")}
LlmResults == {Val("result", "rewritten"), StrV(""), NoneV}

\* the behaviours a callback registered for callback_type may show
CallbackBehaviours(callback_type) ==
    CASE callback_type = "before_tool_callback" ->
            Streaming({UThought}, MaxHookYield, ToolInputs)
            \cup Returning(ToolInputs, {UThought}, MaxHookYield)
      [] callback_type = "after_tool_callback" ->
            Streaming({UThought}, MaxHookYield, ToolResults)
            \cup Returning(ToolResults, {UThought}, MaxHookYield)
      [] callback_type = "before_model_callback" ->
            Streaming({UThought}, MaxHookYield, LlmParams)
            \cup Returning(LlmParams, {UThought}, MaxHookYield)
      [] callback_type = "after_model_callback" ->
            Streaming({UThought}, MaxHookYield, LlmResults)
            \cup Returning(LlmResults, {UThought}, MaxHookYield)
      [] OTHER ->
            Streaming({UThought, UMarker, UError}, MaxYield, SlotValues)
            \cup Returning(SlotValues, {UThought, UMarker, UError}, MaxYield)

----------------------------------------------------------------------------
(* run_callback_with_events (callbacks.py)                                 *)

\* the arguments of one call, and the behaviour the callback shows in it
Frame(present, attr, callback_type, ret) ==
    [present |-> present, attr |-> attr, callback_type |-> callback_type,
     ret |-> ret, run |-> NoBehaviour, pos |-> 0, required |-> <<>>]

NoFrame == Frame(FALSE, "modified_input", "None", "done")

Slot == ctx[cb.attr]

\* except Exception as e: the error event of the dispatcher
CallbackError(exc, msg) ==
    CallbackEvent("error", exc \o ": " \o msg, cb.callback_type)

StartMarker ==
    CallbackEvent("execute_callback", "Running " \o cb.callback_type, cb.callback_type)

ResultMarker ==
    CallbackEvent("execute_callback_result",
        "Completed " \o cb.callback_type \o " with value: '" \o Str(Slot) \o "'",
        cb.callback_type)

\* a dispatcher that announces a callback before it tests for its absence
CbAbsent_Announces ==
    /\ pc = "cb_enter"
    /\ ~cb.present
    /\ events' = Append(events, StartMarker)
    /\ pc' = cb.ret
    /\ UNCHANGED <<ctx, cb, tool, rest>>

\* if callback_fn is None: return
CbAbsent ==
    /\ pc = "cb_enter"
    /\ ~cb.present
    /\ pc' = cb.ret
    /\ UNCHANGED <<events, ctx, cb, tool, rest>>

\* yield AgentEvent(type="execute_callback", ...)
CbStart ==
    /\ pc = "cb_enter"
    /\ cb.present
    /\ events' = Append(events, StartMarker)
    /\ pc' = "cb_call"
    /\ UNCHANGED <<ctx, cb, tool, rest>>

\* repr of a list of strings
RECURSIVE ReprItems(_)
ReprItems(names) ==
    IF names = <<>> THEN ""
    ELSE "'" \o names[1] \o "'"
         \o (IF Len(names) > 1 THEN ", " ELSE "") \o ReprItems(Tail(names))
ListRepr(names) == "[" \o ReprItems(names) \o "]"

\* MissingContextAttributeError.__init__: the message of the exception
MissingContextAttributeError(callback_name, missing_attrs) ==
    "Callback '" \o callback_name \o "' requires context attributes "
    \o ListRepr(missing_attrs) \o " to be set (not None)"

\* _validate_context with a test for truthiness: the list `missing`
RECURSIVE validate_context_Truthiness(_, _)
validate_context_Truthiness(context, required_attrs) ==
    IF required_attrs = <<>> THEN <<>>
    ELSE (IF required_attrs[1] \notin DOMAIN context
          THEN <<required_attrs[1] \o " (attribute does not exist)">>
          ELSE IF ~Truthy(context[required_attrs[1]]) THEN <<required_attrs[1]>>
          ELSE <<>>)
         \o validate_context_Truthiness(context, Tail(required_attrs))

\* _validate_context: the list `missing`; the call raises if it is not empty
RECURSIVE validate_context(_, _)
validate_context(context, required_attrs) ==
    IF required_attrs = <<>> THEN <<>>
    ELSE (IF required_attrs[1] \notin DOMAIN context
          THEN <<required_attrs[1] \o " (attribute does not exist)">>
          ELSE IF IsNone(context[required_attrs[1]]) THEN <<required_attrs[1]>>
          ELSE <<>>)
         \o validate_context(context, Tail(required_attrs))

\* CbCall with the call outside the try block: an exception at the call ends
\* the generator at once
CbCall_Uncaught ==
    /\ pc = "cb_call"
    /\ \E b \in CallbackBehaviours(cb.callback_type) :
        /\ cb' = [cb EXCEPT !.run = b, !.pos = 0]
        /\ events' = events
        /\ pc' = IF b.kind = "raise_on_call" THEN cb.ret
                 ELSE IF b.kind = "asyncgen" THEN "cb_stream" ELSE "cb_await"
    /\ UNCHANGED <<ctx, tool, rest>>

\* result = callback_fn(**callback_input, context=context).  The wrapper of
\* require_context validates the context first and calls the callback only
\* if nothing is missing; a callback that is not wrapped requires nothing.
CbCall ==
    /\ pc = "cb_call"
    /\ IF validate_context(ctx, cb.required) # <<>>
       THEN /\ events' = Append(events, CallbackError("MissingContextAttributeError",
                    MissingContextAttributeError("my_callback",
                                                 validate_context(ctx, cb.required))))
            /\ pc' = "cb_result"
            /\ cb' = cb
       ELSE \E b \in CallbackBehaviours(cb.callback_type) :
            /\ cb' = [cb EXCEPT !.run = b, !.pos = 0]
            /\ IF b.kind = "raise_on_call"
               THEN /\ events' = Append(events, CallbackError(b.exc, b.msg))
                    /\ pc' = "cb_result"
               ELSE /\ events' = events
                    /\ pc' = IF b.kind = "asyncgen" THEN "cb_stream" ELSE "cb_await"
    /\ UNCHANGED <<ctx, tool, rest>>

\* async for event in result: yield event
CbForward ==
    /\ pc = "cb_stream"
    /\ cb.pos < Len(cb.run.yields)
    /\ events' = Append(events, cb.run.yields[cb.pos + 1])
    /\ cb' = [cb EXCEPT !.pos = cb.pos + 1]
    /\ UNCHANGED <<pc, ctx, tool, rest>>

\* the slot after the generator body has run to its end
AfterStream(c, attr, write) ==
    LET written == IF write = NoWrite THEN c ELSE [c EXCEPT ![attr] = write]
    IN  IF ~Truthy(written[attr]) THEN [written EXCEPT ![attr] = NoneV] ELSE written

\* CbStreamEnd with an except clause that re-raises after reporting
CbStreamEnd_Reraises ==
    /\ pc = "cb_stream"
    /\ cb.pos = Len(cb.run.yields)
    /\ IF cb.run.raises
       THEN /\ ctx' = IF cb.run.write = NoWrite THEN ctx
                      ELSE [ctx EXCEPT ![cb.attr] = cb.run.write]
            /\ events' = Append(events, CallbackError(cb.run.exc, cb.run.msg))
            /\ pc' = "raised"
       ELSE /\ ctx' = AfterStream(ctx, cb.attr, cb.run.write)
            /\ events' = events
            /\ pc' = "cb_result"
    /\ UNCHANGED <<cb, tool, rest>>

\* the generator finishes (or raises): "context was not used in callback, set to None"
CbStreamEnd ==
    /\ pc = "cb_stream"
    /\ cb.pos = Len(cb.run.yields)
    /\ IF cb.run.raises
       THEN /\ ctx' = IF cb.run.write = NoWrite THEN ctx
                      ELSE [ctx EXCEPT ![cb.attr] = cb.run.write]
            /\ events' = Append(events, CallbackError(cb.run.exc, cb.run.msg))
       ELSE /\ ctx' = AfterStream(ctx, cb.attr, cb.run.write)
            /\ events' = events
    /\ pc' = "cb_result"
    /\ UNCHANGED <<cb, tool, rest>>

\* isinstance(ev, AgentEvent): every item of the model's lists is an event
Forwarded(ret) ==
    CASE ret.shape = "event" -> ret.evs
      [] ret.shape = "list" -> ret.evs
      [] OTHER -> <<>>

\* Case 5 - fallback
Unrecognized(ret) ==
    CallbackEvent("callback_unrecognized_output",
        "Callback returned unknown type: " \o
            (IF ret.shape = "tuple" THEN "tuple" ELSE TypeName(ret.val)),
        cb.callback_type)

\* the events of the classification of an awaited result (Cases 2 to 5)
Classify(ret) ==
    IF ret.shape = "value" /\ (IsStr(ret.val) \/ IsNone(ret.val)) THEN <<>>
    ELSE IF ret.shape \in {"event", "list"} THEN Forwarded(ret)
    ELSE <<Unrecognized(ret)>>

\* Case 2 without the test of the result: None is stored as well
Stored_Overwrites(c, attr, ret) ==
    IF ret.shape = "value" /\ (IsStr(ret.val) \/ IsNone(ret.val))
    THEN [c EXCEPT ![attr] = ret.val]
    ELSE c

\* Case 2: if result: setattr(context, context_attr, result)
Stored(c, attr, ret) ==
    IF ret.shape = "value" /\ IsStr(ret.val) /\ Truthy(ret.val)
    THEN [c EXCEPT ![attr] = ret.val]
    ELSE c

\* result = await result, and the classification of what it gave
CbAwait ==
    /\ pc = "cb_await"
    /\ IF cb.run.kind = "sync"
       THEN /\ events' = Append(events, CallbackError("TypeError",
                    "object " \o TypeName(cb.run.ret.val)
                        \o " can't be used in 'await' expression"))
            /\ ctx' = ctx
       ELSE IF cb.run.raises
       THEN /\ events' = Append(events, CallbackError(cb.run.exc, cb.run.msg))
            /\ ctx' = ctx
       ELSE /\ events' = events \o Classify(cb.run.ret)
            /\ ctx' = Stored(ctx, cb.attr, cb.run.ret)
    /\ pc' = "cb_result"
    /\ UNCHANGED <<cb, tool, rest>>

\* yield AgentEvent(type="execute_callback_result", ...)
CbResult ==
    /\ pc = "cb_result"
    /\ events' = Append(events, ResultMarker)
    /\ pc' = cb.ret
    /\ UNCHANGED <<ctx, cb, tool, rest>>

run_callback_with_events ==
    CbAbsent \/ CbStart \/ CbCall \/ CbForward \/ CbStreamEnd \/ CbAwait \/ CbResult

----------------------------------------------------------------------------
(* BaseTool (tools/base.py)                                                *)

\* json.loads on the argument texts of the model; any other text does not decode
JsonDecodes(text) == text \in {"{\"query\": \"math\"}", "{}", "[1]", "7"}
JsonLoads(text) ==
    CASE text = "{\"query\": \"math\"}" -> DictV("{query: math}")
      [] text = "{}" -> DictV("{}")
      [] text = "[1]" -> Val("list", "[1]")
      [] OTHER -> IntV(text)

\* a parser that hands undecodable text on as it is
parse_tool_args_KeepsText(raw_args) ==
    IF IsNone(raw_args) THEN DictV("{}")
    ELSE IF IsDict(raw_args) THEN raw_args
    ELSE IF JsonDecodes(raw_args.v) THEN JsonLoads(raw_args.v)
    ELSE raw_args

\* BaseTool.parse_tool_args
parse_tool_args(raw_args) ==
    IF IsNone(raw_args) THEN DictV("{}")
    ELSE IF IsDict(raw_args) THEN raw_args
    ELSE IF JsonDecodes(raw_args.v) THEN JsonLoads(raw_args.v)
    ELSE DictV("{}")

\* tool_call.function.arguments, as the provider or a caller may give it
RawArgs ==
    {NoneV, DictV("{query: math}"), StrV("{\"query\": \"math\"}"), StrV("{}"), StrV("not json"),
     StrV("[1]"), StrV("7")}

\* what the body of a tool (its run method) may do when it is called
ToolWrites == {StrV(""), StrV("Result: q"), DictV("{r: 1}")}
ToolBehaviours ==
    Streaming({UThought, UToolResult}, MaxHookYield, ToolWrites)
    \cup {Behaviour("coroutine", <<>>, NoWrite, FALSE, Ret("value", v, <<>>), "", "") :
            v \in {NoneV, StrV(""), StrV("42"), IntV("0")}}
    \cup {Behaviour("coroutine", <<>>, NoWrite, TRUE, NoRet, "ValueError", "Test Error"),
          Behaviour("raise_on_call", <<>>, NoWrite, TRUE, NoRet, "TypeError",
                    "run() missing 1 required positional argument: 'query'"),
          Behaviour("sync", <<>>, NoWrite, FALSE, Ret("value", StrV("42"), <<>>), "", "")}

\* the request, the hook references of the tool, and the locals of execute;
\* given is the context as the caller passed it in
ToolFrame(id, name, raw, before, after) ==
    [present |-> TRUE, id |-> id, name |-> name, raw |-> raw,
     before_tool_callback |-> before, after_tool_callback |-> after,
     fn_args |-> NoneV, effective_args |-> NoneV, run |-> NoBehaviour, pos |-> 0,
     given |-> NoneV]

NoTool ==
    [ToolFrame("None", "None", NoneV, FALSE, FALSE) EXCEPT !.present = FALSE]

\* yield AgentEvent(type="tool_call", ...)
ToolCallEvent(fn_name, fn_args, id) ==
    AgentEvent("tool_call", "Calling " \o fn_name \o " with " \o fn_args.v,
               fn_name, fn_args, id, "None")

\* yield AgentEvent(type="tool_result", ...)
ToolResultEvent(fn_name, content, id) ==
    AgentEvent("tool_result", content, fn_name, NoneV, id, "None")

\* the error event of run_tool_and_parse_output's except clause
ToolErrorEvent(content, fn_name, args) ==
    AgentEvent("error", content, fn_name, args, "None", "None")

\* an execute that works on the context as it was passed in
ExecStart_KeepsSlots ==
    /\ pc = "exec_start"
    /\ LET fn_args == parse_tool_args(tool.raw)
       IN  /\ ctx' = ctx
           /\ tool' = [tool EXCEPT !.fn_args = fn_args]
           /\ IF IsDict(fn_args)
              THEN /\ events' = Append(events, ToolCallEvent(tool.name, fn_args, tool.id))
                   /\ pc' = "exec_before"
              ELSE /\ events' = events
                   /\ pc' = "raised"
    /\ UNCHANGED <<cb, rest>>

\* execute, part 1: reset the slots, parse the arguments, yield the tool_call
\* event.  AgentEvent validates its fields: tool_args that is no dict is refused.
ExecStart ==
    /\ pc = "exec_start"
    /\ LET fn_args == parse_tool_args(tool.raw)
       IN  /\ ctx' = [ctx EXCEPT !.tool_input = NoneV, !.tool_result = NoneV]
           /\ tool' = [tool EXCEPT !.fn_args = fn_args]
           /\ IF IsDict(fn_args)
              THEN /\ events' = Append(events, ToolCallEvent(tool.name, fn_args, tool.id))
                   /\ pc' = "exec_before"
              ELSE /\ events' = events
                   /\ pc' = "raised"
    /\ UNCHANGED <<cb, rest>>

\* execute, part 2: if self.before_tool_callback: run it against tool_input
ExecBefore ==
    /\ pc = "exec_before"
    /\ IF tool.before_tool_callback
       THEN /\ cb' = Frame(TRUE, "tool_input", "before_tool_callback", "exec_run")
            /\ pc' = "cb_enter"
       ELSE /\ cb' = cb
            /\ pc' = "exec_run"
    /\ UNCHANGED <<events, ctx, tool, rest>>

\* effective_args = context.tool_input if context.tool_input is not None else fn_args
EffectiveArgs == IF ~IsNone(ctx.tool_input) THEN ctx.tool_input ELSE tool.fn_args

\* an except clause that only records the failure in the slot
ToolFailed_NoEvent(exc, msg, args) ==
    /\ ctx' = [ctx EXCEPT !.tool_result = StrV(exc \o ": " \o msg)]
    /\ events' = events

\* except Exception as e: the slot and the error event
ToolFailed(exc, msg, args) ==
    /\ ctx' = [ctx EXCEPT !.tool_result = StrV(exc \o ": " \o msg)]
    /\ events' = Append(events, ToolErrorEvent(exc \o ": " \o msg, tool.name, args))

\* if context.tool_result: logger.info(... context.tool_result[:500]) inside the
\* try block: a truthy result that is no string cannot be sliced
LogResult(c, args) ==
    IF Truthy(c.tool_result) /\ ~IsStr(c.tool_result)
    THEN /\ ctx' = [c EXCEPT !.tool_result = StrV("KeyError: slice(None, 500, None)")]
         /\ events' = Append(events,
                ToolErrorEvent("KeyError: slice(None, 500, None)", tool.name, args))
    ELSE /\ ctx' = c
         /\ events' = events

\* the message for arguments that are no dict
InvalidArgs(args) ==
    "Tool '" \o tool.name \o "' expected arguments as a dict, got "
        \o TypeName(args) \o "."

\* try: result = self._call_run(...) up to the first event of the body
InvokeRun(args) ==
    \E b \in ToolBehaviours :
        /\ tool' = [tool EXCEPT !.effective_args = args, !.run = b, !.pos = 0]
        /\ CASE b.kind = "raise_on_call" ->
                    /\ ToolFailed(b.exc, b.msg, args)
                    /\ pc' = "exec_after"
             [] b.kind = "asyncgen" ->
                    /\ UNCHANGED <<ctx, events>>
                    /\ pc' = "tool_stream"
             [] b.kind = "coroutine" ->
                    /\ IF b.raises
                       THEN ToolFailed(b.exc, b.msg, args)
                       ELSE LogResult(
                              [ctx EXCEPT !.tool_result = StrV(Str(b.ret.val))], args)
                    /\ pc' = "exec_after"
             [] OTHER ->
                    /\ ToolFailed("ValueError",
                        "Tool '" \o tool.name \o "' .run() returned an invalid result. "
                        \o "Expected async generator or awaitable function, got "
                        \o TypeName(b.ret.val), args)
                    /\ pc' = "exec_after"

\* run_tool_and_parse_output without its check of the arguments
ExecRun_NoArgsCheck ==
    /\ pc = "exec_run"
    /\ InvokeRun(EffectiveArgs)
    /\ UNCHANGED <<cb, rest>>

\* run_tool_and_parse_output up to the first event of the body
ExecRun ==
    /\ pc = "exec_run"
    /\ LET args == EffectiveArgs
       IN  IF ~IsDict(args)
           THEN /\ ctx' = [ctx EXCEPT !.tool_result = StrV(InvalidArgs(args))]
                /\ events' = Append(events, PlainEvent("error", InvalidArgs(args)))
                /\ tool' = [tool EXCEPT !.effective_args = args]
                /\ pc' = "exec_after"
           ELSE InvokeRun(args)
    /\ UNCHANGED <<cb, rest>>

\* Case 1: async for event in result: yield event
ToolForward ==
    /\ pc = "tool_stream"
    /\ tool.pos < Len(tool.run.yields)
    /\ events' = Append(events, tool.run.yields[tool.pos + 1])
    /\ tool' = [tool EXCEPT !.pos = tool.pos + 1]
    /\ UNCHANGED <<pc, ctx, cb, rest>>

\* the body of a streaming tool runs to its end, or raises
ToolStreamEnd ==
    /\ pc = "tool_stream"
    /\ tool.pos = Len(tool.run.yields)
    /\ LET written == IF tool.run.write = NoWrite THEN ctx
                      ELSE [ctx EXCEPT !.tool_result = tool.run.write]
       IN  IF tool.run.raises
           THEN /\ ctx' = [ctx EXCEPT !.tool_result =
                              StrV(tool.run.exc \o ": " \o tool.run.msg)]
                /\ events' = Append(events, ToolErrorEvent(
                        tool.run.exc \o ": " \o tool.run.msg, tool.name, tool.effective_args))
           ELSE LogResult(written, tool.effective_args)
    /\ pc' = "exec_after"
    /\ UNCHANGED <<tool, cb, rest>>

\* execute, part 4: if self.after_tool_callback and context.tool_result
ExecAfter ==
    /\ pc = "exec_after"
    /\ IF tool.after_tool_callback /\ Truthy(ctx.tool_result)
       THEN /\ cb' = Frame(TRUE, "tool_result", "after_tool_callback", "exec_final")
            /\ pc' = "cb_enter"
       ELSE /\ cb' = cb
            /\ pc' = "exec_final"
    /\ UNCHANGED <<events, ctx, tool, rest>>

\* if context.tool_result is None: the sentinel
FinalResult(result) ==
    IF IsNone(result) THEN StrV("Error: No result returned from tool execution.")
    ELSE result

\* an execute that reports the result first and runs the after hook then
ExecFinal_BeforeAfterHook ==
    /\ pc = "exec_final"
    /\ ctx' = [ctx EXCEPT !.tool_result = FinalResult(ctx.tool_result)]
    /\ events' = Append(events,
            ToolResultEvent(tool.name, Str(FinalResult(ctx.tool_result)), tool.id))
    /\ IF tool.after_tool_callback
       THEN /\ cb' = Frame(TRUE, "tool_result", "after_tool_callback", "done")
            /\ pc' = "cb_enter"
       ELSE /\ cb' = cb
            /\ pc' = "done"
    /\ UNCHANGED <<tool, rest>>

\* execute, part 5: the final tool_result event.  AgentEvent validates its
\* fields: content that is no string is refused.
ExecFinal ==
    /\ pc = "exec_final"
    /\ ctx' = [ctx EXCEPT !.tool_result = FinalResult(ctx.tool_result)]
    /\ IF IsStr(FinalResult(ctx.tool_result))
       THEN /\ events' = Append(events,
                    ToolResultEvent(tool.name, FinalResult(ctx.tool_result).v, tool.id))
            /\ pc' = "done"
       ELSE /\ events' = events
            /\ pc' = "raised"
    /\ UNCHANGED <<tool, cb, rest>>

\* a call of execute on its own: any arguments, hooks registered or not, and
\* a context that an earlier call may have used
InitTool ==
    /\ pc = "exec_start"
    /\ events = <<>>
    /\ \E used \in BOOLEAN :
        ctx = IF used
              THEN [CallbackContext EXCEPT !.tool_input = DictV("{q: old}"),
                                           !.tool_result = StrV("old result")]
              ELSE CallbackContext
    /\ \E raw \in RawArgs, before \in BOOLEAN, after \in BOOLEAN :
        tool = [ToolFrame("call_1", "mock_tool", raw, before, after)
                    EXCEPT !.given = ctx]
    /\ cb = NoFrame
    /\ agent = NoAgent
    /\ turn = NoTurn
    /\ messages = <<>>
    /\ loopEvents = <<>>
    /\ modelCalls = <<>>
    /\ chat = NoChat
    /\ db = NoDb
    /\ other = NoOther
    /\ consumer = Reading
    /\ llm = NoLlm
    /\ storage = NoStorage

NextTool ==
    \/ ExecStart \/ ExecBefore \/ ExecRun \/ ToolForward \/ ToolStreamEnd
    \/ ExecAfter \/ ExecFinal
    \/ CbStart \/ CbCall \/ CbForward \/ CbStreamEnd \/ CbAwait \/ CbResult

SpecTool == InitTool /\ [][NextTool]_vars

----------------------------------------------------------------------------
(* BaseAgent (base.py): the collector and the agent's own dispatcher       *)

\* LLMAgent.__init__: the example hooks stand in for hooks that are not given
LLMAgent_init(before_agent_callback, after_agent_callback) ==
    [present |-> TRUE,
     before_agent_callback |->
        IF before_agent_callback = "None" THEN "simple_before_callback"
        ELSE before_agent_callback,
     after_agent_callback |->
        IF after_agent_callback = "None" THEN "simple_after_callback"
        ELSE after_agent_callback,
     tools |-> {"simple_search"}]

\* the event a hook was handed, where it re-emits it
FinalAnswer == PlainEvent("<final_answer>", "")

\* the keyword arguments _run_callback_with_events calls a hook with
callback_input(callback_type) ==
    IF callback_type = "before_agent_callback" THEN {"user_input", "history"}
    ELSE {"final_answer"}

\* calling a function with keywords that are not its parameters
UnexpectedKeyword(fn, keyword) ==
    Behaviour("raise_on_call", <<>>, NoWrite, TRUE, NoRet, "TypeError",
              fn \o "() got an unexpected keyword argument '" \o keyword \o "'")

\* simple_before_callback(user_input, history):
\* return user_input + " [Modified by Before Callback]"
simple_before_callback(keywords, user_input) ==
    IF keywords = {"user_input", "history"}
    THEN Behaviour("coroutine", <<>>, NoWrite, FALSE,
              Ret("value", StrV(user_input \o " [Modified by Before Callback]"), <<>>), "", "")
    ELSE UnexpectedKeyword("simple_before_callback", "final_answer")

\* simple_after_callback(agent_event): return [extra_event, agent_event]
simple_after_callback(keywords) ==
    IF keywords = {"agent_event"}
    THEN Behaviour("coroutine", <<>>, NoWrite, FALSE,
              Ret("list", NoneV,
                  <<PlainEvent("thought", "This thought was added by the after_agent_callback."),
                    FinalAnswer>>), "", "")
    ELSE UnexpectedKeyword("simple_after_callback", "final_answer")

\* a hook written for the documented signature (user_input, history, context),
\* which writes its override into the context: tests/agents/test_base.py
ContextWritingHook(yields, write) ==
    Behaviour("asyncgen", yields, write, FALSE, NoRet, "", "")

\* the before-turn hooks a user may register: streaming ones that yield nothing
\* or an answer-typed event, and raise or not; one that writes the context;
\* ones that return a string, None, an event, a list or tuple, or raise
BeforeHookBehaviours ==
    Streaming({UAnswer}, 1, {})
    \cup {ContextWritingHook(<<UMarker>>, StrV("HI"))}
    \cup Returning({StrV("HI"), StrV("")}, {UThought}, 1)

\* the after-turn hooks a user may register, likewise; one returns an answer
\* of its own next to the final answer
AfterHookBehaviours ==
    Streaming({UToolResult, FinalAnswer}, 1, {})
    \cup {ContextWritingHook(<<UMarker, FinalAnswer>>, StrV("final"))}
    \cup Returning({StrV("final")}, {FinalAnswer}, 1)
    \cup {Behaviour("coroutine", <<>>, NoWrite, FALSE,
                    Ret("list", NoneV, <<UAnswer, FinalAnswer>>), "", "")}

\* the behaviours of the callable a hook reference names
TurnHookBehaviours(ref, callback_type, user_input) ==
    CASE ref = "simple_before_callback" ->
            {simple_before_callback(callback_input(callback_type), user_input)}
      [] ref = "simple_after_callback" ->
            {simple_after_callback(callback_input(callback_type))}
      [] callback_type = "before_agent_callback" -> BeforeHookBehaviours
      [] OTHER -> AfterHookBehaviours

\* the text a before-turn hook asks to be used instead of the user's input:
\* the string it returns, or the string it writes into the context
Override(b) ==
    IF b.kind = "coroutine" /\ ~b.raises /\ b.ret.shape = "value" /\ IsStr(b.ret.val)
    THEN b.ret.val
    ELSE IF b.kind = "asyncgen" /\ ~b.raises /\ b.write # NoWrite THEN b.write
    ELSE NoneV

\* the events an after-turn hook hands back: the ones it streams, or the
\* event, list or tuple of events it returns
Output(b) ==
    IF b.kind = "asyncgen" THEN b.yields
    ELSE IF b.kind = "coroutine" /\ ~b.raises THEN b.ret.evs
    ELSE <<>>

\* process_turn's locals and the CallbackCollector; override, output and
\* hook_raised record what the hooks of the turn asked for and which raised
Turn(history, user_input) ==
    [present |-> TRUE, history |-> history, user_input |-> user_input,
     before_modified_input |-> NoneV, override |-> NoneV, output |-> <<>>,
     final_answer_event |-> FinalAnswer, has_answer |-> FALSE,
     tool_calls |-> <<>>, k |-> 0, requested |-> 0, failed |-> FALSE,
     hook_raised |-> {}]

\* the event as the consumer gets it
Emitted(e) == IF e = FinalAnswer THEN turn.final_answer_event ELSE e

\* _run_callback_with_events: yield AgentEvent(type="execute_callback", ...)
HookStart ==
    /\ pc = "hook_enter"
    /\ events' = Append(events, StartMarker)
    /\ pc' = "hook_call"
    /\ UNCHANGED <<ctx, cb, tool, agent, env, turn, messages, loopEvents, modelCalls>>

\* result = callback_fn(**callback_input): the hook is given no context, so
\* one that takes a context parameter cannot be called
HookCall ==
    /\ pc = "hook_call"
    /\ \E b \in TurnHookBehaviours(
                IF cb.callback_type = "before_agent_callback"
                THEN agent.before_agent_callback ELSE agent.after_agent_callback,
                cb.callback_type, turn.user_input) :
        /\ turn' = [IF cb.callback_type = "before_agent_callback"
                    THEN [turn EXCEPT !.override = Override(b)]
                    ELSE [turn EXCEPT !.output = Output(b)]
                        EXCEPT !.hook_raised =
                            IF b.kind = "raise_on_call"
                            THEN @ \cup {cb.callback_type} ELSE @]
        /\ IF b.kind = "raise_on_call"
           THEN /\ events' = Append(events, CallbackError(b.exc, b.msg))
                /\ pc' = cb.ret
                /\ cb' = NoFrame
           ELSE IF b.write # NoWrite
           THEN /\ events' = Append(events, CallbackError("TypeError",
                        "missing 1 required positional argument: 'context'"))
                /\ pc' = cb.ret
                /\ cb' = NoFrame
           ELSE /\ events' = events
                /\ pc' = IF b.kind = "asyncgen" THEN "hook_stream" ELSE "hook_await"
                /\ cb' = [cb EXCEPT !.run = b, !.pos = 0]
    /\ UNCHANGED <<ctx, tool, agent, env, messages, loopEvents, modelCalls>>

\* Case 1: async for event in result: yield event
HookForward ==
    /\ pc = "hook_stream"
    /\ cb.pos < Len(cb.run.yields)
    /\ events' = Append(events, Emitted(cb.run.yields[cb.pos + 1]))
    /\ cb' = [cb EXCEPT !.pos = cb.pos + 1]
    /\ UNCHANGED <<pc, ctx, tool, agent, env, turn, messages, loopEvents, modelCalls>>

\* setattr(collector, collector_attr, None) after the stream, or the except clause
\* a dispatcher without the except clause: the hook's exception leaves
\* process_turn
HookStreamEnd_Reraises ==
    /\ pc = "hook_stream"
    /\ cb.pos = Len(cb.run.yields)
    /\ IF cb.run.raises
       THEN /\ turn' = [turn EXCEPT !.hook_raised = @ \cup {cb.callback_type}]
            /\ pc' = "raised"
       ELSE /\ turn' = IF cb.attr = "before_modified_input"
                       THEN [turn EXCEPT !.before_modified_input = NoneV]
                       ELSE turn
            /\ pc' = cb.ret
    /\ cb' = NoFrame
    /\ UNCHANGED <<events, ctx, tool, agent, env, messages, loopEvents, modelCalls>>

HookStreamEnd ==
    /\ pc = "hook_stream"
    /\ cb.pos = Len(cb.run.yields)
    /\ IF cb.run.raises
       THEN /\ events' = Append(events, CallbackError(cb.run.exc, cb.run.msg))
            /\ turn' = [turn EXCEPT !.hook_raised = @ \cup {cb.callback_type}]
       ELSE /\ events' = events
            /\ turn' = IF cb.attr = "before_modified_input"
                       THEN [turn EXCEPT !.before_modified_input = NoneV]
                       ELSE turn
    /\ pc' = cb.ret
    /\ cb' = NoFrame
    /\ UNCHANGED <<ctx, tool, agent, env, messages, loopEvents, modelCalls>>

\* the events of Cases 2 to 5 of _run_callback_with_events.  Case 3 and 4
\* append to getattr(collector, collector_attr) before they yield: for the
\* before hook that attribute is None.
HookClassify(ret, attr) ==
    IF ret.shape = "value" /\ IsStr(ret.val) /\ attr = "before_modified_input"
    THEN <<CallbackEvent("execute_callback_result",
                "Modified user input: " \o ret.val.v, cb.callback_type)>>
    ELSE IF ret.shape \in {"event", "list"}
    THEN IF attr = "before_modified_input" /\ ret.evs # <<>>
         THEN <<CallbackError("AttributeError",
                    "'NoneType' object has no attribute 'append'")>>
         ELSE [i \in DOMAIN ret.evs |-> Emitted(ret.evs[i])]
    ELSE <<Unrecognized(ret)>>

\* result = await result, and Cases 2 to 5
HookAwait ==
    /\ pc = "hook_await"
    /\ IF cb.run.kind = "sync"
       THEN /\ events' = Append(events, CallbackError("TypeError",
                    "object " \o TypeName(cb.run.ret.val)
                        \o " can't be used in 'await' expression"))
            /\ turn' = turn
       ELSE IF cb.run.raises
       THEN /\ events' = Append(events, CallbackError(cb.run.exc, cb.run.msg))
            /\ turn' = [turn EXCEPT !.hook_raised = @ \cup {cb.callback_type}]
       ELSE /\ events' = events \o HookClassify(cb.run.ret, cb.attr)
            /\ turn' = IF cb.run.ret.shape = "value" /\ IsStr(cb.run.ret.val)
                          /\ cb.attr = "before_modified_input"
                       THEN [turn EXCEPT !.before_modified_input = cb.run.ret.val]
                       ELSE turn
    /\ pc' = cb.ret
    /\ cb' = NoFrame
    /\ UNCHANGED <<ctx, tool, agent, env, messages, loopEvents, modelCalls>>

\* process_turn and process_before_agent_callback up to the hook's call
TurnStart ==
    /\ pc = "turn_start"
    /\ IF agent.before_agent_callback = "None"
       THEN /\ turn' = [turn EXCEPT !.before_modified_input = StrV(turn.user_input)]
            /\ cb' = cb
            /\ pc' = "loop_start"
       ELSE /\ turn' = turn
            /\ cb' = Frame(TRUE, "before_modified_input", "before_agent_callback",
                           "turn_fallback")
            /\ pc' = "hook_enter"
    /\ UNCHANGED <<events, ctx, tool, agent, env, messages, loopEvents, modelCalls>>

\* "If callback produced no new user input, fallback"
TurnFallback ==
    /\ pc = "turn_fallback"
    /\ turn' = IF IsNone(turn.before_modified_input)
               THEN [turn EXCEPT !.before_modified_input = StrV(turn.user_input)]
               ELSE turn
    /\ pc' = "loop_start"
    /\ UNCHANGED <<events, ctx, cb, tool, agent, env, messages, loopEvents, modelCalls>>

\* a process_turn that delivers the loop's answer and runs the hook as well
TurnAfter_KeepsAnswer ==
    /\ pc = "turn_after"
    /\ IF ~turn.has_answer
       THEN /\ pc' = "done"
            /\ UNCHANGED <<events, cb>>
       ELSE /\ events' = Append(events, turn.final_answer_event)
            /\ IF agent.after_agent_callback = "None"
               THEN /\ pc' = "done"
                    /\ cb' = cb
               ELSE /\ cb' = Frame(TRUE, "after_events", "after_agent_callback", "done")
                    /\ pc' = "hook_enter"
    /\ UNCHANGED <<ctx, tool, agent, env, turn, messages, loopEvents, modelCalls>>

\* process_turn, "AFTER CALLBACK", and process_after_agent_callback up to
\* the hook's call
TurnAfter ==
    /\ pc = "turn_after"
    /\ IF ~turn.has_answer
       THEN /\ pc' = "done"
            /\ UNCHANGED <<events, cb>>
       ELSE IF agent.after_agent_callback = "None"
       THEN /\ events' = Append(events, turn.final_answer_event)
            /\ pc' = "done"
            /\ cb' = cb
       ELSE /\ cb' = Frame(TRUE, "after_events", "after_agent_callback", "done")
            /\ pc' = "hook_enter"
            /\ events' = events
    /\ UNCHANGED <<ctx, tool, agent, env, turn, messages, loopEvents, modelCalls>>

----------------------------------------------------------------------------
(* LLMAgent._process_turn (llm_agent.py)                                   *)

\* an entry of the message list; an absent key is None
Message(role, content, tool_calls, tool_call_id, name) ==
    [role |-> role, content |-> content, tool_calls |-> tool_calls,
     tool_call_id |-> tool_call_id, name |-> name]

SystemMessage ==
    Message("system", StrV("You are a helpful assistant. Use tools when necessary."),
            <<>>, "None", "None")
UserMessage(content) == Message("user", content, <<>>, "None", "None")

\* msg_dict: content and tool_calls are set only when truthy
AssistantMessage(content, tool_calls) ==
    Message("assistant", IF Truthy(content) THEN content ELSE NoneV, tool_calls,
            "None", "None")

\* a tool-role entry that does not say which call it answers
ToolMessage_NoId(tool_call_id, name, content) ==
    Message("tool", StrV(content), <<>>, "None", name)

\* the tool-role entry appended after a tool ran
ToolMessage(tool_call_id, name, content) ==
    Message("tool", StrV(content), <<>>, tool_call_id, name)

\* the histories a turn is started with
Histories ==
    {<<>>, <<UserMessage(StrV("earlier question")),
             AssistantMessage(StrV("earlier answer"), <<>>)>>}

\* one requested tool call: ChatCompletionMessageToolCall
ToolCall(id, name, arguments) == [id |-> id, name |-> name, arguments |-> arguments]

\* what the model may ask for in one tool call: a tool and its argument text
CallKinds ==
    {<<"simple_search", "{\"query\": \"math\"}">>, <<"simple_search", "not json">>,
     <<"simple_search", "7">>, <<"missing_tool", "{\"query\": \"math\"}">>}

\* the provider numbers the tool calls of a conversation
CallId(n) == "call_" \o ToString(n)

\* the tool_calls of a response that asks for the calls of kinds, after
\* `requested` earlier calls
ToolCalls(kinds, requested) ==
    [i \in DOMAIN kinds |-> ToolCall(CallId(requested + i), kinds[i][1], kinds[i][2])]

\* message.content of a response
Contents == {StrV(""), StrV("Hello")}

\* messages = [system] + history + [user input]
LoopStart ==
    /\ pc = "loop_start"
    /\ messages' = <<SystemMessage>> \o turn.history
                        \o <<UserMessage(turn.before_modified_input)>>
    /\ pc' = "loop_model"
    /\ UNCHANGED <<events, ctx, cb, tool, agent, env, turn, loopEvents, modelCalls>>

\* the provider call, as the provider sees it
ModelCall == [messages |-> messages, at |-> Len(loopEvents)]

\* a loop that goes on after a failed provider call
ModelFails_Continues ==
    /\ pc = "loop_model"
    /\ modelCalls' = Append(modelCalls, ModelCall)
    /\ loopEvents' = Append(loopEvents, PlainEvent("error", "Connection error."))
    /\ events' = Append(events, PlainEvent("error", "Connection error."))
    /\ turn' = [turn EXCEPT !.failed = TRUE]
    /\ pc' = "loop_model"
    /\ UNCHANGED <<ctx, cb, tool, agent, env, messages>>

\* chat.completions.create raises: yield an error event and break
ModelFails ==
    /\ pc = "loop_model"
    /\ modelCalls' = Append(modelCalls, ModelCall)
    /\ loopEvents' = Append(loopEvents, PlainEvent("error", "Connection error."))
    /\ events' = Append(events, PlainEvent("error", "Connection error."))
    /\ turn' = [turn EXCEPT !.failed = TRUE]
    /\ pc' = "turn_after"
    /\ UNCHANGED <<ctx, cb, tool, agent, env, messages>>

\* a response with tool calls: append it, yield its content as a thought
ModelRequestsTools ==
    /\ pc = "loop_model"
    /\ \E content \in Contents,
          kinds \in SeqsUpTo(CallKinds, MaxToolCalls - turn.requested) :
        LET calls == ToolCalls(kinds, turn.requested)
        IN  /\ calls # <<>>
            /\ modelCalls' = Append(modelCalls, ModelCall)
            /\ messages' = Append(messages, AssistantMessage(content, calls))
            /\ IF Truthy(content)
               THEN /\ loopEvents' = Append(loopEvents, PlainEvent("thought", content.v))
                    /\ events' = Append(events, PlainEvent("thought", content.v))
               ELSE UNCHANGED <<loopEvents, events>>
            /\ turn' = [turn EXCEPT !.tool_calls = calls, !.k = 1,
                                    !.requested = turn.requested + Len(calls)]
    /\ pc' = "loop_tool_call"
    /\ UNCHANGED <<ctx, cb, tool, agent, env>>

\* a response without tool calls: "if content: yield answer", then break;
\* process_turn holds the answer event back and stops reading
ModelAnswers ==
    /\ pc = "loop_model"
    /\ \E content \in Contents :
        /\ modelCalls' = Append(modelCalls, ModelCall)
        /\ messages' = Append(messages, AssistantMessage(content, <<>>))
        /\ IF Truthy(content)
           THEN /\ loopEvents' = Append(loopEvents, PlainEvent("answer", content.v))
                /\ turn' = [turn EXCEPT !.final_answer_event = PlainEvent("answer", content.v),
                                        !.has_answer = TRUE]
           ELSE UNCHANGED <<loopEvents, turn>>
    /\ pc' = "turn_after"
    /\ UNCHANGED <<events, ctx, cb, tool, agent, env>>

\* fn_args = json.loads(fn_args_str), {} if it does not decode
LoopArgs(arguments) ==
    IF JsonDecodes(arguments) THEN JsonLoads(arguments) ELSE DictV("{}")

\* "Yield tool call event".  AgentEvent validates tool_args: arguments that
\* decode to something that is no dict make the constructor raise.
ToolCallStep ==
    /\ pc = "loop_tool_call"
    /\ LET call == turn.tool_calls[turn.k]
           fn_args == LoopArgs(call.arguments)
       IN  IF IsDict(fn_args)
           THEN /\ loopEvents' = Append(loopEvents, ToolCallEvent(call.name, fn_args, call.id))
                /\ events' = Append(events, ToolCallEvent(call.name, fn_args, call.id))
                /\ pc' = "loop_tool_run"
           ELSE /\ UNCHANGED <<loopEvents, events>>
                /\ pc' = "raised"
    /\ UNCHANGED <<ctx, cb, tool, agent, env, turn, messages, modelCalls>>

\* the registered tool, "async def run(self, query): return '42'", called as
\* run(**fn_args)
SimpleTool_run(fn_args) ==
    IF fn_args = DictV("{query: math}")
    THEN Behaviour("coroutine", <<>>, NoWrite, FALSE, Ret("value", StrV("42"), <<>>), "", "")
    ELSE Behaviour("raise_on_call", <<>>, NoWrite, TRUE, NoRet, "TypeError",
                   "SimpleTool.run() missing 1 required positional argument: 'query'")

\* result_str of "await self.tools[fn_name].run(**fn_args)"
ResultStr(fn_name, b) ==
    CASE b.kind = "coroutine" /\ ~b.raises -> Str(b.ret.val)
      [] b.kind = "asyncgen" ->
            "Error executing tool " \o fn_name
                \o ": object async_generator can't be used in 'await' expression"
      [] b.kind = "sync" ->
            "Error executing tool " \o fn_name \o ": object "
                \o TypeName(b.ret.val) \o " can't be used in 'await' expression"
      [] OTHER -> "Error executing tool " \o fn_name \o ": " \o b.msg

\* result_str for a name that is not registered
NotFound(fn_name) == "Error: Tool " \o fn_name \o " not found."

\* a loop that keeps the result of a tool to itself
ToolRunStep_NoEvent ==
    /\ pc = "loop_tool_run"
    /\ LET call == turn.tool_calls[turn.k]
           result_str ==
                IF call.name \in agent.tools
                THEN ResultStr(call.name, SimpleTool_run(LoopArgs(call.arguments)))
                ELSE NotFound(call.name)
       IN   /\ UNCHANGED <<loopEvents, events>>
            /\ messages' = Append(messages, ToolMessage(call.id, call.name, result_str))
    /\ IF turn.k < Len(turn.tool_calls)
       THEN /\ turn' = [turn EXCEPT !.k = turn.k + 1]
            /\ pc' = "loop_tool_call"
       ELSE /\ turn' = turn
            /\ pc' = "loop_model"
    /\ UNCHANGED <<ctx, cb, tool, agent, env, modelCalls>>

\* a loop that treats an unknown tool as fatal: an error event, and the loop ends
ToolRunStep_UnknownIsFatal ==
    /\ pc = "loop_tool_run"
    /\ LET call == turn.tool_calls[turn.k]
           result_str == ResultStr(call.name, SimpleTool_run(LoopArgs(call.arguments)))
       IN   IF call.name \in agent.tools
            THEN /\ loopEvents' = Append(loopEvents,
                        ToolResultEvent(call.name, result_str, call.id))
                 /\ events' = Append(events, ToolResultEvent(call.name, result_str, call.id))
                 /\ messages' = Append(messages, ToolMessage(call.id, call.name, result_str))
                 /\ IF turn.k < Len(turn.tool_calls)
                    THEN /\ turn' = [turn EXCEPT !.k = turn.k + 1]
                         /\ pc' = "loop_tool_call"
                    ELSE /\ turn' = turn
                         /\ pc' = "loop_model"
            ELSE /\ loopEvents' = Append(loopEvents, PlainEvent("error", NotFound(call.name)))
                 /\ events' = Append(events, PlainEvent("error", NotFound(call.name)))
                 /\ UNCHANGED <<messages, turn>>
                 /\ pc' = "turn_after"
    /\ UNCHANGED <<ctx, cb, tool, agent, env, modelCalls>>

\* "Execute", "Yield tool result event", "Append result to messages"
ToolRunStep ==
    /\ pc = "loop_tool_run"
    /\ LET call == turn.tool_calls[turn.k]
           result_str ==
                IF call.name \in agent.tools
                THEN ResultStr(call.name, SimpleTool_run(LoopArgs(call.arguments)))
                ELSE NotFound(call.name)
       IN   /\ loopEvents' = Append(loopEvents,
                    ToolResultEvent(call.name, result_str, call.id))
            /\ events' = Append(events, ToolResultEvent(call.name, result_str, call.id))
            /\ messages' = Append(messages, ToolMessage(call.id, call.name, result_str))
    /\ IF turn.k < Len(turn.tool_calls)
       THEN /\ turn' = [turn EXCEPT !.k = turn.k + 1]
            /\ pc' = "loop_tool_call"
       ELSE /\ turn' = turn
            /\ pc' = "loop_model"
    /\ UNCHANGED <<ctx, cb, tool, agent, env, modelCalls>>

\* an LLMAgent as constructed, or with a hook reference cleared afterwards,
\* starts a turn
InitTurn ==
    /\ pc = "turn_start"
    /\ events = <<>>
    /\ ctx = CallbackContext
    /\ cb = NoFrame
    /\ tool = NoTool
    /\ \E before \in {"None", "user"}, after \in {"None", "user"},
          cleared \in SUBSET {"before", "after"} :
        agent = [LLMAgent_init(before, after) EXCEPT
                    !.before_agent_callback =
                        IF "before" \in cleared THEN "None" ELSE @,
                    !.after_agent_callback =
                        IF "after" \in cleared THEN "None" ELSE @]
    /\ \E history \in Histories : turn = Turn(history, "hi")
    /\ messages = <<>>
    /\ loopEvents = <<>>
    /\ modelCalls = <<>>
    /\ chat = NoChat
    /\ db = NoDb
    /\ other = NoOther
    /\ consumer = Reading
    /\ llm = NoLlm
    /\ storage = NoStorage

NextTurn ==
    \/ TurnStart \/ HookStart \/ HookCall \/ HookForward \/ HookStreamEnd \/ HookAwait
    \/ TurnFallback \/ LoopStart \/ ModelFails \/ ModelRequestsTools \/ ModelAnswers
    \/ ToolCallStep \/ ToolRunStep \/ TurnAfter

SpecTurn == InitTurn /\ [][NextTurn]_vars

----------------------------------------------------------------------------
(* Specifications of the parts on their own *)

\* a call of run_callback_with_events on its own: any callback reference, any
\* prior value of the target slot
InitCb ==
    /\ pc = "cb_enter"
    /\ events = <<>>
    /\ \E present \in BOOLEAN, attr \in {"modified_input", "tool_input"},
          prior \in {NoneV, StrV("old")} :
        /\ cb = Frame(present, attr, "test_cb", "done")
        /\ ctx = [CallbackContext EXCEPT ![attr] = prior]
    /\ tool = NoTool
    /\ agent = NoAgent
    /\ turn = NoTurn
    /\ messages = <<>>
    /\ loopEvents = <<>>
    /\ modelCalls = <<>>
    /\ chat = NoChat
    /\ db = NoDb
    /\ other = NoOther
    /\ consumer = Reading
    /\ llm = NoLlm
    /\ storage = NoStorage

NextCb ==
    CbAbsent \/ CbStart \/ CbCall \/ CbForward \/ CbStreamEnd \/ CbAwait \/ CbResult

SpecCb == InitCb /\ [][NextCb]_vars

----------------------------------------------------------------------------
(* Claims about run_callback_with_events, checked under SpecCb             *)

\* the events of the stream that the dispatcher made itself: it stamps them
\* with its callback_type
OwnOf(type) ==
    {i \in DOMAIN events :
        events[i].type = type /\ events[i].callback_type = cb.callback_type}

\* the callback of this call raised: when called, while awaited, or while streaming
CallbackRaised ==
    \/ cb.run.kind = "raise_on_call"
    \/ cb.run.kind \in {"asyncgen", "coroutine"} /\ cb.run.raises

\* C6: for a callback that is not absent, whatever it returns, streams or
\* raises, the dispatcher's start marker is the first event of the stream and
\* there is no other, its result marker is the last event and there is no
\* other, and so every forwarded or error event lies strictly between them.
C6_MarkersBracketStream ==
    cb.present =>
        /\ pc = "cb_enter" => events = <<>>
        /\ pc # "cb_enter" => OwnOf("execute_callback") = {1}
        /\ pc # "done" => OwnOf("execute_callback_result") = {}
        /\ pc = "done" =>
            /\ Len(events) >= 2
            /\ OwnOf("execute_callback_result") = {Len(events)}

\* a streaming callback whose two events were forwarded between the markers
C6_Witness ==
    /\ pc = "done"
    /\ cb.present
    /\ cb.run.kind = "asyncgen"
    /\ Len(events) = 4
    /\ events[2] = UMarker
    /\ events[3] = UThought

\* C7: a callback that raises (at the call, while awaited, or part-way through
\* streaming) gives exactly one error event of the dispatcher, whose content
\* is "<type name>: <message>"; the dispatcher ends normally, and the result
\* marker follows the error event.
C7_RaiseBecomesOneError ==
    /\ pc \in {"cb_enter", "cb_call", "cb_stream", "cb_await", "cb_result", "done"}
    /\ (pc = "done" /\ cb.present /\ CallbackRaised) =>
        /\ OwnOf("error") = {Len(events) - 1}
        /\ events[Len(events) - 1].content = cb.run.exc \o ": " \o cb.run.msg
        /\ events[Len(events)].type = "execute_callback_result"

\* a streaming callback that raised after two events, one of them an error
\* event of its own making
C7_Witness ==
    /\ pc = "done"
    /\ cb.run.kind = "asyncgen"
    /\ cb.run.raises
    /\ Len(cb.run.yields) = 2
    /\ cb.run.yields[1] = UError
    /\ events[Len(events) - 1].content = "ValueError: Oops"

----------------------------------------------------------------------------
(* Claims about BaseTool.execute, checked under SpecTool                   *)

\* the tool_result events of the stream that carry the request's id
ResultsOf(id) ==
    {i \in DOMAIN events : events[i].type = "tool_result" /\ events[i].tool_call_id = id}

\* C1: when execute has ended for a call whose arguments are a mapping,
\* whatever the tool body and the tool hooks did, it ended normally, the last
\* event of the stream is a tool_result event with the request's tool_call_id
\* and a content that is not empty, and no other event of the stream is a
\* tool_result with that id.
C1_TerminalToolResult ==
    (tool.present /\ IsDict(tool.fn_args) /\ pc \in {"done", "raised"}) =>
        /\ pc = "done"
        /\ ResultsOf(tool.id) = {Len(events)}
        /\ events[Len(events)].content # ""

----------------------------------------------------------------------------
(* Claims about a turn, checked under SpecTurn                             *)

\* C2: every tool_result event of the turn's stream carries the
\* tool_call_id of exactly one tool_call event emitted before it, also where
\* the event was forwarded verbatim from a hook.
C2_ResultsMatchCalls ==
    \A i \in DOMAIN events :
        events[i].type = "tool_result" =>
            Cardinality({j \in 1..(i - 1) :
                /\ events[j].type = "tool_call"
                /\ events[j].tool_call_id = events[i].tool_call_id}) = 1

\* the reasoning loop is over: the model was called and _process_turn is at
\* none of its steps
LoopExited ==
    /\ modelCalls # <<>>
    /\ pc \notin {"loop_model", "loop_tool_call", "loop_tool_run"}

\* C3: without a provider failure, the loop is over only after a response
\* without tool calls, and then it has emitted exactly one answer event, its
\* last event, with that response's text; before that it has emitted none.
C3_ExitIsOneAnswer ==
    /\ ~LoopExited => Count(loopEvents, "answer") = 0
    /\ (LoopExited /\ ~turn.failed) =>
        /\ messages[Len(messages)].role = "assistant"
        /\ messages[Len(messages)].tool_calls = <<>>
        /\ Count(loopEvents, "answer") = 1
        /\ loopEvents[Len(loopEvents)].type = "answer"
        /\ StrV(loopEvents[Len(loopEvents)].content) = messages[Len(messages)].content

\* C4: the stream of process_turn holds at most one answer event, whatever
\* the model, the tools and the hooks of the turn do.
C4_AtMostOneAnswer == Count(events, "answer") <= 1

\* C10: the user message of the first model call carries the text the
\* before-turn hook returned or wrote into the context, and the user's input
\* when there is no hook or the hook set no override.
C10_FirstCallCarriesOverride ==
    modelCalls # <<>> =>
        LET sent == modelCalls[1].messages
        IN  sent[Len(sent)] =
                UserMessage(IF IsNone(turn.override) THEN StrV(turn.user_input)
                            ELSE turn.override)

\* the last n events of the stream
Last(s, n) == SubSeq(s, Len(s) - n + 1, Len(s))

Among(n, type) == {i \in 1..n : loopEvents[i].type = type}

\* the number of tool calls the responses among the first n messages ask for
RECURSIVE RequestedIn(_, _)
RequestedIn(msgs, n) ==
    IF n = 0 THEN 0 ELSE Len(msgs[n].tool_calls) + RequestedIn(msgs, n - 1)
Requested(msgs) == RequestedIn(msgs, Len(msgs))

\* the tool_call events of the loop, in the order of the stream
IsToolCall(e) == e.type = "tool_call"
Announced == SelectSeq(loopEvents, IsToolCall)

\* C8: in the loop's stream every tool_call event is followed directly by
\* the tool_result of the same call, so the result of one call precedes the
\* request of the next; the calls run in the order they were requested; when
\* the model is called again every call requested so far has its tool_call
\* and its tool_result in the stream; and an answer event is the last event.
\* The consumer's stream ends with these events in this order while the loop
\* runs, and at the end of a turn whose answer the engine passes on itself.
C8_ToolCallsRunInOrder ==
    /\ \A k \in DOMAIN Announced : Announced[k].tool_call_id = CallId(k)
    /\ \A i \in DOMAIN loopEvents :
        /\ loopEvents[i].type = "tool_call" =>
            /\ i = Len(loopEvents) => pc = "loop_tool_run"
            /\ i < Len(loopEvents) =>
                /\ loopEvents[i + 1].type = "tool_result"
                /\ loopEvents[i + 1].tool_call_id = loopEvents[i].tool_call_id
        /\ loopEvents[i].type = "tool_result" =>
            /\ i > 1
            /\ loopEvents[i - 1].type = "tool_call"
            /\ loopEvents[i - 1].tool_call_id = loopEvents[i].tool_call_id
        /\ loopEvents[i].type = "answer" => i = Len(loopEvents)
    /\ \A m \in DOMAIN modelCalls :
        /\ Cardinality(Among(modelCalls[m].at, "tool_call")) = Requested(modelCalls[m].messages)
        /\ Cardinality(Among(modelCalls[m].at, "tool_result")) = Requested(modelCalls[m].messages)
    /\ (pc \in {"loop_model", "loop_tool_call", "loop_tool_run"}
            \/ (pc = "done" /\ turn.has_answer /\ agent.after_agent_callback = "None")) =>
        Last(events, Len(loopEvents)) = loopEvents

\* one response asked for two calls; both ran, one after the other, before
\* the second model call, which answered
C8_Witness ==
    /\ pc = "done"
    /\ Len(modelCalls) = 2
    /\ Types(loopEvents) = <<"tool_call", "tool_result", "tool_call", "tool_result", "answer">>
    /\ loopEvents[3].tool_call_id = "call_2"
    /\ modelCalls[2].at = 4

\* the assistant message that asked for the call with this id
RequestOf(id) ==
    CHOOSE msg \in {messages[n] : n \in DOMAIN messages} :
        \E j \in DOMAIN msg.tool_calls : msg.tool_calls[j].id = id

\* the call is the last one its response asked for
IsLastOfResponse(id) ==
    RequestOf(id).tool_calls[Len(RequestOf(id).tool_calls)].id = id

IsAfterStart(e) == e.type = "execute_callback" /\ e.callback_type = "after_agent_callback"
IsUnstamped(e) == e.callback_type = "None"
AfterStartAt == CHOOSE i \in DOMAIN events : IsAfterStart(events[i])
Delivered == SelectSeq(SubSeq(events, AfterStartAt + 1, Len(events)), IsUnstamped)

\* C11: at the end of a turn whose loop gave an answer: without an after-turn
\* hook the answer event is the last event of the stream, unmodified; with
\* one, what follows the hook's start in the stream is exactly the events the
\* hook returned or streamed, in its order, and the engine adds no answer
\* event of its own.
C11_AfterHookReplacesAnswer ==
    (pc = "done" /\ turn.has_answer) =>
        IF agent.after_agent_callback = "None"
        THEN /\ events[Len(events)] = turn.final_answer_event
             /\ Last(events, Len(loopEvents)) = loopEvents
        ELSE /\ \E i \in DOMAIN events : IsAfterStart(events[i])
             /\ Delivered = [i \in DOMAIN turn.output |-> Emitted(turn.output[i])]

\* an LLMAgent constructed without hooks of the user's
IsDefaultAgent ==
    /\ agent.before_agent_callback = "simple_before_callback"
    /\ agent.after_agent_callback = "simple_after_callback"

\* C12: a turn of an LLMAgent constructed without user-supplied hooks, whose
\* one model response has non-empty text and no tool calls, ends its stream
\* with exactly one answer event, whose content is the model's text, after
\* exactly one model call.
C12_DefaultAgentAnswers ==
    (/\ pc = "done"
     /\ IsDefaultAgent
     /\ Len(modelCalls) = 1
     /\ turn.has_answer
     /\ turn.final_answer_event.content # "") =>
        /\ Count(events, "answer") = 1
        /\ events[Len(events)] = turn.final_answer_event

\* the error events the dispatcher made for the hook of one kind
IsErrorOf(callback_type, e) == e.type = "error" /\ e.callback_type = callback_type
BeforeErrors == {i \in DOMAIN events : IsErrorOf("before_agent_callback", events[i])}
AfterErrors == {i \in DOMAIN events : IsErrorOf("after_agent_callback", events[i])}

ToolBodyFailed ==
    /\ tool.run # NoBehaviour
    /\ tool.run.raises \/ tool.run.kind = "sync"

\* the text of the failure
FailureText ==
    IF tool.run.raises THEN tool.run.exc \o ": " \o tool.run.msg
    ELSE "ValueError: Tool '" \o tool.name \o "' .run() returned an invalid result. "
         \o "Expected async generator or awaitable function, got "
         \o TypeName(tool.run.ret.val)

\* the error events that bear the tool's name
ToolErrors == {i \in DOMAIN events : events[i].type = "error"
                                        /\ events[i].tool_name = tool.name}

\* C14: when run_tool_and_parse_output returns after the tool body raised or
\* returned neither an event producer nor an awaitable, it has emitted
\* exactly one error event, the last of the stream, behind every event the
\* tool produced before it failed; slot tool_result holds the non-empty
\* error text; nothing was raised.
C14_ToolFailureIsOneError ==
    (pc = "exec_after" /\ ToolBodyFailed) =>
        /\ Cardinality(ToolErrors) = 1
        /\ Last(events, Len(tool.run.yields) + 1) =
                Append(tool.run.yields,
                       ToolErrorEvent(FailureText, tool.name, tool.effective_args))
        /\ ctx.tool_result = StrV(FailureText)
        /\ FailureText # ""

\* a streaming tool raised after it had produced an event
C14_Witness ==
    /\ pc = "exec_after"
    /\ ToolBodyFailed
    /\ tool.run.kind = "asyncgen"
    /\ Len(tool.run.yields) > 0

\* C15: execute never raises to its caller: whatever the arguments of the
\* request (absent, a mapping, undecodable text, text that decodes to a list,
\* a string or a number) and whatever the hooks and the tool body do, it
\* ends only by its final tool_result event.
C15_ExecuteNeverRaises ==
    /\ pc # "raised"
    /\ pc = "done" => events[Len(events)].type = "tool_result"

\* the serialized arguments of the request cannot be decoded
Undecodable == tool.present /\ IsStr(tool.raw) /\ ~JsonDecodes(tool.raw.v)

\* C16: for serialized arguments that cannot be decoded, execute emits as
\* its first event the tool_call event with an empty argument mapping; up to
\* the tool's run nothing but that event and the before-tool hook's events
\* is in the stream, so no error event stems from the decoding; and where no
\* before-tool override is in slot tool_input, the tool body is invoked with
\* the empty mapping.
C16_UndecodableArgsAreEmpty ==
    (Undecodable /\ pc # "exec_start") =>
        /\ Len(events) >= 1
        /\ events[1] = ToolCallEvent(tool.name, DictV("{}"), tool.id)
        /\ pc = "exec_before" => Len(events) = 1
        /\ (pc = "exec_run" /\ ~tool.before_tool_callback) => Len(events) = 1
        /\ (pc \in {"tool_stream", "exec_after", "exec_final", "done"}
                /\ IsNone(ctx.tool_input)) =>
            /\ tool.effective_args = DictV("{}")
            /\ tool.run # NoBehaviour

\* execute is through, for undecodable arguments and a tool body that was
\* awaited, with no override
C16_Witness ==
    /\ Undecodable
    /\ pc = "done"
    /\ IsNone(ctx.tool_input)
    /\ tool.run.kind = "coroutine"
    /\ ~tool.run.raises

\* run_tool_and_parse_output was given effective arguments that are no mapping
NonMappingArgs ==
    tool.present /\ ~IsNone(tool.effective_args) /\ ~IsDict(tool.effective_args)

\* the error events that come from no hook
OwnErrors == {i \in DOMAIN events : events[i].type = "error"
                                       /\ events[i].callback_type = "None"}

\* what run_tool_and_parse_output does with such arguments: the tool's run
\* is not invoked, one error event is emitted, and on return slot tool_result
\* holds the invalid-arguments message
Rejected ==
    /\ tool.run = NoBehaviour
    /\ Cardinality(OwnErrors) = 1
    /\ \A i \in OwnErrors :
            events[i] = PlainEvent("error", InvalidArgs(tool.effective_args))
    /\ pc = "exec_after" => ctx.tool_result = StrV(InvalidArgs(tool.effective_args))

\* execute ended by its final tool_result event, which carries the
\* invalid-arguments message
FinalCarriesInvalidArgs ==
    pc \in {"done", "raised"} =>
        /\ pc = "done"
        /\ events[Len(events)] =
                ToolResultEvent(tool.name, InvalidArgs(tool.effective_args), tool.id)

BeforeHookStreamed ==
    /\ tool.before_tool_callback
    /\ cb.callback_type = "before_tool_callback"
    /\ cb.run.kind = "asyncgen"

\* what that hook wrote into the slot
BeforeHookWrote == IF BeforeHookStreamed THEN cb.run.write ELSE NoWrite

\* C18: once the tool's run has been given its arguments, they are the value
\* the before-tool hook left in slot tool_input, whatever it is, an empty
\* mapping included, and the originally parsed arguments where the tool has
\* no such hook or the hook wrote nothing; the tool_call event carries the
\* originally parsed arguments in either case.
C18_BodyRunsWithHookInput ==
    (/\ tool.present
     /\ pc \in {"tool_stream", "exec_after"}
     /\ ~tool.before_tool_callback \/ BeforeHookStreamed) =>
        /\ tool.effective_args =
                IF BeforeHookWrote = NoWrite THEN tool.fn_args ELSE BeforeHookWrote
        /\ events[1] = ToolCallEvent(tool.name, tool.fn_args, tool.id)

\* ---------------------------------------------------------------------
\* Claims on run_callback_with_events (SpecCb), continued
\* ---------------------------------------------------------------------

\* the callback of this call was awaited and gave back a single value that
\* is a string or a mapping
ReturnedValue ==
    /\ cb.present
    /\ cb.run.kind = "coroutine"
    /\ ~cb.run.raises
    /\ cb.run.ret.shape = "value"
    /\ IsStr(cb.run.ret.val) \/ IsDict(cb.run.ret.val)

\* C19: when the dispatcher is through with a callback that returned a
\* string, the empty one included, or a mapping, the target slot holds
\* exactly that value, and the dispatcher has emitted neither an error event
\* nor an unrecognized-output event.
C19_ReturnedValueIsStored ==
    (pc = "done" /\ ReturnedValue) =>
        /\ Slot = cb.run.ret.val
        /\ OwnOf("error") = {}
        /\ OwnOf("callback_unrecognized_output") = {}

\* the body of a streaming callback has produced its events and ends
\* without raising
StreamEnds ==
    /\ pc = "cb_stream"
    /\ cb.pos = Len(cb.run.yields)
    /\ ~cb.run.raises

\* C20: the dispatcher forwards each event of a streaming callback as it is
\* and in the order of production, leaving the slot alone; and when the
\* stream ends, the target slot is left with exactly what the callback wrote
\* into it, whatever the value, an empty string or an empty mapping
\* included, or with the value it had before if the callback wrote nothing;
\* the result marker that follows changes no slot.
C20_StreamLeavesSlotAlone ==
    [][/\ (pc = "cb_stream" /\ cb.pos < Len(cb.run.yields)) =>
            /\ events' = Append(events, cb.run.yields[cb.pos + 1])
            /\ ctx' = ctx
       /\ StreamEnds =>
            /\ events' = events
            /\ ctx' = IF cb.run.write = NoWrite THEN ctx
                      ELSE [ctx EXCEPT ![cb.attr] = cb.run.write]
       /\ pc = "cb_result" => ctx' = ctx]_vars

\* the callback of this call was awaited and gave back a list or a tuple of
\* events
ReturnedCollection ==
    /\ cb.present
    /\ cb.run.kind = "coroutine"
    /\ ~cb.run.raises
    /\ cb.run.ret.shape \in {"list", "tuple"}

\* C21: the step that classifies a returned list or tuple of events forwards
\* every event of it exactly once, in the collection's order, and writes no
\* slot; the step lies between the start marker and the result marker.
C21_CollectionIsForwarded ==
    [][(pc = "cb_await" /\ ReturnedCollection) =>
            /\ events' = events \o cb.run.ret.evs
            /\ ctx' = ctx
            /\ pc' = "cb_result"]_vars

\* the callback of this call is a plain function that returned a string
SyncReturnedString ==
    /\ cb.present
    /\ cb.run.kind = "sync"
    /\ IsStr(cb.run.ret.val)
    /\ Truthy(cb.run.ret.val)

\* C22: when the dispatcher is through with a synchronous callback that
\* returned a non-empty string, the target slot holds that string, the
\* result marker reports it, and no error event was emitted.
C22_SyncCallbackIsClassified ==
    (pc = "done" /\ SyncReturnedString) =>
        /\ Slot = cb.run.ret.val
        /\ events[Len(events)].content =
                "Completed " \o cb.callback_type \o " with value: '"
                    \o cb.run.ret.val.v \o "'"
        /\ OwnOf("error") = {}

\* the callback of this call was awaited and gave back None
ReturnedNone ==
    /\ cb.present
    /\ cb.run.kind = "coroutine"
    /\ ~cb.run.raises
    /\ cb.run.ret.shape = "value"
    /\ IsNone(cb.run.ret.val)

C24_AbsentCallbackDoesNothing ==
    /\ [](~cb.present => events = <<>>)
    /\ [][~cb.present => ctx' = ctx]_vars

\* the dispatcher returned for an absent callback, a slot holding a value
C24_Witness ==
    /\ pc = "done"
    /\ ~cb.present
    /\ Slot = StrV("old")
    /\ events = <<>>

\* ---------------------------------------------------------------------
\* Claims on the message list of a turn (SpecTurn)
\* ---------------------------------------------------------------------

\* the entries of a message list that the turn started with: the system
\* prompt, the history and the user's input
Preamble == Len(turn.history) + 2

\* entry n of the list is an assistant entry followed by exactly one
\* tool-role entry per tool call it requested, with the call's id, in the
\* order of the requests
HasItsResults(sent, n) ==
    LET calls == sent[n].tool_calls
    IN  /\ sent[n].role = "assistant"
        /\ n + Len(calls) <= Len(sent)
        /\ \A j \in DOMAIN calls :
            /\ sent[n + j].role = "tool"
            /\ sent[n + j].tool_call_id = calls[j].id
        /\ n + Len(calls) < Len(sent) => sent[n + Len(calls) + 1].role = "assistant"

\* the assistant entries a list holds behind the preamble
ResponsesIn(sent) == {n \in (Preamble + 1)..Len(sent) : sent[n].role = "assistant"}

\* C29: the message list of every model call after the first holds, behind
\* the preamble, one assistant entry per earlier model response of the turn,
\* each followed by exactly one tool-role entry per tool call it requested,
\* with matching tool_call_id and in request order, and nothing else: no
\* requested id lacks its tool-role entry when the model is called again.
C29_ResponsesCarryTheirResults ==
    \A m \in DOMAIN modelCalls :
        m > 1 =>
            LET sent == modelCalls[m].messages
            IN  /\ Cardinality(ResponsesIn(sent)) = m - 1
                /\ sent[Preamble + 1].role = "assistant"
                /\ \A n \in ResponsesIn(sent) :
                    /\ HasItsResults(sent, n)
                    /\ sent[n].tool_calls # <<>>
                /\ Len(sent) = Preamble + (m - 1) + Requested(sent)

\* the model is called a third time: the first response asked for one call,
\* the second for another
C29_Witness ==
    /\ Len(modelCalls) = 3
    /\ Len(modelCalls[3].messages) = Preamble + 4
    /\ turn.history # <<>>

\* ---------------------------------------------------------------------
\* Claims on the after-tool hook of BaseTool.execute (SpecTool)
\* ---------------------------------------------------------------------

\* the after-tool hook of this call ran to its end
AfterHookRan ==
    /\ tool.present
    /\ cb.callback_type = "after_tool_callback"
    /\ cb.run.kind \in {"asyncgen", "coroutine"}
    /\ ~cb.run.raises

\* the string the hook set in place of the tool's result: the one it wrote
\* into the slot, or the one it returned
Replacement ==
    IF cb.run.kind = "asyncgen" THEN cb.run.write
    ELSE IF cb.run.ret.shape = "value" THEN cb.run.ret.val
    ELSE NoWrite

\* the after-tool hook is invoked exactly when one is registered and the run
\* step left a result in the slot
InvokedWhenResult ==
    [][pc = "exec_after" =>
            ((pc' = "cb_enter") <=> (tool.after_tool_callback /\ ~IsNone(ctx.tool_result)))]_vars

\* the final tool_result event carries the string the hook set
FinalCarriesReplacement ==
    (pc \in {"done", "raised"} /\ AfterHookRan /\ IsStr(Replacement)) =>
        /\ pc = "done"
        /\ events[Len(events)] = ToolResultEvent(tool.name, Replacement.v, tool.id)

\* C30: the after-tool hook is invoked exactly when one is registered and
\* the run step left a result in slot tool_result, after the tool body has
\* finished; and where the hook set a replacement, the final tool_result
\* event carries it.
C30_AfterHookRewritesResult ==
    InvokedWhenResult /\ []FinalCarriesReplacement

----------------------------------------------------------------------------
(* ChatService.process_message: src/app/services/chat_service.py           *)
(* The agent is any entry of AGENTS, or a stand-in as in the tests: what   *)
(* process_message sees of it is the stream process_turn yields.           *)

\* events the agent of one turn yields, at most
MaxTurnEvents == 3

\* rows of the tables messages and trace_logs; created_at and timestamp are
\* the position in the table
MessageRow(id, role, content) == [id |-> id, role |-> role, content |-> content]
TraceLog(message_id, e) ==
    [message_id |-> message_id, type |-> e.type, content |-> e.content,
     tool_name |-> e.tool_name, tool_args |-> e.tool_args,
     tool_call_id |-> e.tool_call_id]

\* the event a trace row was made of
EventOf(t) ==
    AgentEvent(t.type, t.content, t.tool_name, t.tool_args, t.tool_call_id, "None")

\* the traces of one message, in the order of their timestamps
TracesOf(table, message_id) ==
    SelectSeq(table.traces, LAMBDA t : t.message_id = message_id)

\* json.dumps of the arguments of a trace
JsonDumps(tool_args) ==
    CASE tool_args = DictV("{query: math}") -> "{\"query\": \"math\"}"
      [] tool_args = DictV("{}") -> "{}"
      [] OTHER -> tool_args.v

\* _get_history: the entries one message row gives
HistoryOf(table, row) ==
    LET traces == TracesOf(table, row.id)
        calls == SelectSeq(traces, LAMBDA t : t.type = "tool_call")
        thoughts == SelectSeq(traces, LAMBDA t : t.type = "thought")
        results == SelectSeq(traces, LAMBDA t : t.type = "tool_result")
        tool_calls_data ==
            [i \in DOMAIN calls |->
                ToolCall(calls[i].tool_call_id, calls[i].tool_name,
                         JsonDumps(calls[i].tool_args))]
        answer == IF row.content # ""
                  THEN <<AssistantMessage(StrV(row.content), <<>>)>> ELSE <<>>
    IN  IF row.role = "user" THEN <<UserMessage(StrV(row.content))>>
        ELSE IF row.role # "assistant" THEN <<>>
        ELSE IF tool_calls_data = <<>> THEN answer
        ELSE <<AssistantMessage(
                    IF thoughts = <<>> \/ thoughts[1].content = ""
                    THEN NoneV ELSE StrV(thoughts[1].content),
                    tool_calls_data)>>
             \o [i \in DOMAIN results |->
                    ToolMessage(results[i].tool_call_id, results[i].tool_name,
                                results[i].content)]
             \o answer

\* _get_history: all messages of the conversation, ordered by created_at
RECURSIVE HistoryUpTo(_, _)
HistoryUpTo(table, n) ==
    IF n = 0 THEN <<>>
    ELSE HistoryUpTo(table, n - 1) \o HistoryOf(table, table.messages[n])
ChatService_get_history(table) == HistoryUpTo(table, Len(table.messages))

\* "pop the last message from history if it is the user message we just added"
WithoutCurrent(history, content) ==
    IF /\ history # <<>>
       /\ history[Len(history)].role = "user"
       /\ history[Len(history)].content = StrV(content)
    THEN SubSeq(history, 1, Len(history) - 1)
    ELSE history

\* json.dumps(event.model_dump()) + "\n": the line the client is sent
Line(e) == [json |-> e]

\* the events of the streams of the model's agents
ChatEvents ==
    {PlainEvent("thought", "I need to search..."),
     ToolCallEvent("search", DictV("{query: math}"), "call_1"),
     ToolResultEvent("search", "42", "call_1"),
     PlainEvent("answer", "Hello"),
     PlainEvent("answer", "hook answer")}

\* the conversations of the model before the call: a new one, and one with
\* an earlier turn that used a tool
Conversations ==
    {NoDb,
     [messages |-> <<MessageRow(1, "user", "earlier question"),
                     MessageRow(2, "assistant", "earlier answer")>>,
      traces |-> <<TraceLog(2, ToolCallEvent("search", DictV("{}"), "call_0")),
                   TraceLog(2, ToolResultEvent("search", "7", "call_0"))>>]}

\* the locals of process_message; stream and raises say what the agent's
\* process_turn is going to do, sent is what the client has received
Chat(content, stream, raises) ==
    [present |-> TRUE, content |-> content, stream |-> stream, raises |-> raises,
     pos |-> 0, history |-> <<>>, user_msg_id |-> 0, assistant_msg_id |-> 0,
     final_answer_chunks |-> <<>>, sent |-> <<>>]

\* "1. Save User Message"
PmSaveUser ==
    /\ pc = "pm_start"
    /\ db' = [db EXCEPT !.messages =
                Append(@, MessageRow(Len(@) + 1, "user", chat.content))]
    /\ chat' = [chat EXCEPT !.user_msg_id = Len(db.messages) + 1]
    /\ pc' = "pm_history"
    /\ UNCHANGED <<events, ctx, cb, tool, agent, turn, messages, loopEvents,
                   modelCalls, other, consumer, llm, storage>>

\* "Load History", without the message just saved
PmLoadHistory ==
    /\ pc = "pm_history"
    /\ chat' = [chat EXCEPT !.history =
                    WithoutCurrent(ChatService_get_history(db), chat.content)]
    /\ pc' = "pm_placeholder"
    /\ UNCHANGED <<events, ctx, cb, tool, agent, turn, messages, loopEvents,
                   modelCalls, db, other, consumer, llm, storage>>

\* "3. Create Assistant Message Placeholder (to link traces)"
PmPlaceholder ==
    /\ pc = "pm_placeholder"
    /\ db' = [db EXCEPT !.messages =
                Append(@, MessageRow(Len(@) + 1, "assistant", ""))]
    /\ chat' = [chat EXCEPT !.assistant_msg_id = Len(db.messages) + 1]
    /\ pc' = "pm_next"
    /\ UNCHANGED <<events, ctx, cb, tool, agent, turn, messages, loopEvents,
                   modelCalls, other, consumer, llm, storage>>

\* async for event in agent.process_turn(...): the agent runs up to its next
\* event, to its end, or to an exception
PmNext ==
    /\ pc = "pm_next"
    /\ IF chat.pos < Len(chat.stream)
       THEN /\ events' = Append(events, chat.stream[chat.pos + 1])
            /\ chat' = [chat EXCEPT !.pos = chat.pos + 1]
            /\ pc' = "pm_trace"
       ELSE /\ events' = events
            /\ chat' = chat
            /\ pc' = IF chat.raises THEN "raised" ELSE "pm_final"
    /\ UNCHANGED <<ctx, cb, tool, agent, turn, messages, loopEvents, modelCalls,
                   db, other, consumer, llm, storage>>

\* a process_message that streams an event without saving its trace
PmTrace_Deferred ==
    /\ pc = "pm_trace"
    /\ chat' = IF events[Len(events)].type = "answer"
               THEN [chat EXCEPT !.final_answer_chunks =
                        Append(@, events[Len(events)].content)]
               ELSE chat
    /\ pc' = "pm_yield"
    /\ UNCHANGED <<events, ctx, cb, tool, agent, turn, messages, loopEvents,
                   modelCalls, db, other, consumer, llm, storage>>

\* "Save Trace" and "If answer, accumulate"
PmTrace ==
    /\ pc = "pm_trace"
    /\ LET event == events[Len(events)]
       IN  IF event.type # "answer"
           THEN /\ db' = [db EXCEPT !.traces =
                            Append(@, TraceLog(chat.assistant_msg_id, event))]
                /\ chat' = chat
           ELSE /\ db' = db
                /\ chat' = [chat EXCEPT !.final_answer_chunks =
                                Append(@, event.content)]
    /\ pc' = "pm_yield"
    /\ UNCHANGED <<events, ctx, cb, tool, agent, turn, messages, loopEvents,
                   modelCalls, other, consumer, llm, storage>>

\* "Stream to Client"
PmYield ==
    /\ pc = "pm_yield"
    /\ chat' = [chat EXCEPT !.sent = Append(@, Line(events[Len(events)]))]
    /\ pc' = "pm_next"
    /\ UNCHANGED <<events, ctx, cb, tool, agent, turn, messages, loopEvents,
                   modelCalls, db, other, consumer, llm, storage>>

\* the client stops reading after a line it was sent
PmClientStops ==
    /\ pc = "pm_next"
    /\ chat.sent # <<>>
    /\ pc' = "closed"
    /\ UNCHANGED <<events, ctx, cb, tool, agent, turn, messages, loopEvents,
                   modelCalls, chat, db, other, consumer, llm, storage>>

\* "".join(final_answer_chunks)
RECURSIVE Join(_)
Join(chunks) == IF chunks = <<>> THEN "" ELSE chunks[1] \o Join(Tail(chunks))

\* "5. Update Assistant Message with Final Content"
PmFinal ==
    /\ pc = "pm_final"
    /\ db' = [db EXCEPT !.messages[chat.assistant_msg_id].content =
                Join(chat.final_answer_chunks)]
    /\ pc' = "done"
    /\ UNCHANGED <<events, ctx, cb, tool, agent, turn, messages, loopEvents,
                   modelCalls, chat, other, consumer, llm, storage>>

\* a call of process_message on a conversation
InitChat ==
    /\ pc = "pm_start"
    /\ events = <<>>
    /\ ctx = CallbackContext
    /\ cb = NoFrame
    /\ tool = NoTool
    /\ agent = NoAgent
    /\ turn = NoTurn
    /\ messages = <<>>
    /\ loopEvents = <<>>
    /\ modelCalls = <<>>
    /\ \E stream \in SeqsUpTo(ChatEvents, MaxTurnEvents), raises \in BOOLEAN :
        chat = Chat("hi", stream, raises)
    /\ db \in Conversations
    /\ other = NoOther
    /\ consumer = Reading
    /\ llm = NoLlm
    /\ storage = NoStorage

NextChat ==
    \/ PmSaveUser \/ PmLoadHistory \/ PmPlaceholder \/ PmNext \/ PmTrace
    \/ PmYield \/ PmClientStops \/ PmFinal

SpecChat == InitChat /\ [][NextChat]_vars

----------------------------------------------------------------------------
(* Claims on process_message (SpecChat) *)

NonAnswer(s) == SelectSeq(s, LAMBDA e : e.type # "answer")
IsPrefix(s, t) == Len(s) <= Len(t) /\ s = SubSeq(t, 1, Len(s))

\* the traces attached to the assistant message of this turn, as events
TurnTraces ==
    LET rows == TracesOf(db, chat.assistant_msg_id)
    IN  [i \in DOMAIN rows |-> EventOf(rows[i])]

\* the events of the lines the client was sent
Streamed == [i \in DOMAIN chat.sent |-> chat.sent[i].json]

\* C25: the traces of the turn are, in order, non-answer events the agent has
\* produced; every non-answer event sent to the client has its trace by then;
\* no trace is an answer; after the stream has drained the traces are exactly
\* the non-answer events of the turn
C25_TracesBeforeStreaming ==
    chat.present =>
        /\ IsPrefix(TurnTraces, NonAnswer(events))
        /\ IsPrefix(NonAnswer(Streamed), TurnTraces)
        /\ \A i \in DOMAIN TurnTraces : TurnTraces[i].type # "answer"
        /\ (pc = "pm_yield" => TurnTraces = NonAnswer(events))
        /\ (pc = "done" => TurnTraces = NonAnswer(chat.stream))

\* a drained turn with two traces around an answer, in a conversation that
\* already had traces of an earlier turn
C25_Witness ==
    /\ chat.present
    /\ pc = "done"
    /\ Len(TurnTraces) = 2
    /\ Count(chat.stream, "answer") = 1
    /\ chat.stream[2].type = "answer"
    /\ Len(db.traces) = 4

\* the content stored on the assistant message of this turn
StoredContent == db.messages[chat.assistant_msg_id].content

Answers(s) == SelectSeq(s, LAMBDA e : e.type = "answer")

\* C26: after the stream has drained, the content of the assistant message is
\* the content of the answer event of the turn, and it is "" exactly when the
\* turn had no answer event
C26_ContentIsTheAnswer ==
    (chat.present /\ pc = "done") =>
        /\ \A i \in DOMAIN Answers(events) : StoredContent = Answers(events)[i].content
        /\ (StoredContent = "" <=> Answers(events) = <<>>)

\* the same for the turns that keep to one answer event at most
C26_SingleAnswerIsStored ==
    (chat.present /\ pc = "done" /\ Len(Answers(events)) <= 1) =>
        /\ \A i \in DOMAIN Answers(events) : StoredContent = Answers(events)[i].content
        /\ (StoredContent = "" <=> Answers(events) = <<>>)

----------------------------------------------------------------------------
(* The consumer stops reading the stream of a turn or of a tool execution  *)

\* the positions at which the running generator waits for a model call, a
\* tool body or a hook; at every other position it is suspended at a yield
Awaiting ==
    {"loop_model", "loop_tool_run", "hook_await", "hook_stream",
     "cb_await", "cb_stream", "exec_run", "tool_stream"}

\* what is thrown into the generator: the cancellation of the awaited call,
\* or the close of a generator suspended at a yield
Thrown(at) == IF at \in Awaiting THEN "CancelledError" ELSE "GeneratorExit"

\* the classes that derive from Exception, among the ones of the model
ExceptionSubclasses ==
    {"Exception", "TypeError", "ValueError", "RuntimeError", "ValidationError"}

\* handlers that catch whatever is thrown
Catches_Everything(handler, exc) == TRUE

\* except Exception as e: the handler of the model call, of the tool run, of
\* the dispatchers and of run_tool_and_parse_output
Catches(handler, exc) == handler = "Exception" /\ exc \in ExceptionSubclasses

\* The consumer stops.  Nothing in the engine catches what is thrown, so the
\* generators unwind; a handler that caught it would take it for a failure
\* of the awaited call and the generator would go on.
ConsumerStops ==
    /\ ~consumer.stopped
    /\ pc \notin {"done", "raised", "closed"}
    /\ consumer' = [stopped |-> TRUE, at |-> pc]
    /\ pc' = IF Catches("Exception", Thrown(pc)) THEN pc ELSE "closed"
    /\ UNCHANGED <<events, ctx, cb, tool, agent, turn, messages, loopEvents,
                   modelCalls, chat, db, other, llm, storage>>

\* a turn of an agent, or an execution of a tool, whose consumer may stop
InitStop ==
    \/ InitTurn /\ turn.history = <<>>
    \/ InitTool

NextStop ==
    \/ TurnStart \/ HookStart \/ HookCall \/ HookForward \/ HookStreamEnd \/ HookAwait
    \/ TurnFallback \/ LoopStart \/ ModelFails \/ ModelRequestsTools \/ ModelAnswers
    \/ ToolCallStep \/ ToolRunStep \/ TurnAfter
    \/ ExecStart \/ ExecBefore \/ ExecRun \/ ToolForward \/ ToolStreamEnd
    \/ ExecAfter \/ ExecFinal
    \/ CbStart \/ CbCall \/ CbForward \/ CbStreamEnd \/ CbAwait \/ CbResult
    \/ ConsumerStops

SpecStop == InitStop /\ [][NextStop]_vars

----------------------------------------------------------------------------
(* Two turns on one agent instance: AGENTS holds one LLMAgent per id, and  *)
(* every request of process_message calls process_turn on it.  One turn is *)
(* running; the other one is parked at an await or a yield.                *)

\* what belongs to one call of process_turn: its position, its stream, its
\* CallbackCollector, its dispatcher frame, its locals and its message list
Parked(at, evs, collector, frame, locals, msgs, loopEvs, calls) ==
    [present |-> TRUE, pc |-> at, events |-> evs, ctx |-> collector, cb |-> frame,
     turn |-> locals, messages |-> msgs, loopEvents |-> loopEvs,
     modelCalls |-> calls]

\* the call that is running, as a record of the same shape
Running ==
    Parked(pc, events, ctx, cb, turn, messages, loopEvents, modelCalls)

\* an agent that keeps the message list on the instance
Switch_SharesMessages ==
    /\ other.present
    /\ other.pc \notin {"done", "raised"}
    /\ pc' = other.pc
    /\ events' = other.events
    /\ ctx' = other.ctx
    /\ cb' = other.cb
    /\ turn' = other.turn
    /\ messages' = messages
    /\ loopEvents' = other.loopEvents
    /\ modelCalls' = other.modelCalls
    /\ other' = Running
    /\ UNCHANGED <<tool, agent, chat, db, consumer, llm, storage>>

\* the event loop lets the other call run: the agent is the same object,
\* everything else is the other call's own
Switch ==
    /\ other.present
    /\ other.pc \notin {"done", "raised"}
    /\ pc' = other.pc
    /\ events' = other.events
    /\ ctx' = other.ctx
    /\ cb' = other.cb
    /\ turn' = other.turn
    /\ messages' = other.messages
    /\ loopEvents' = other.loopEvents
    /\ modelCalls' = other.modelCalls
    /\ other' = Running
    /\ UNCHANGED <<tool, agent, chat, db, consumer, llm, storage>>

\* a turn with room for one more tool call under the bound of the model
PairTurn(user_input) ==
    [Turn(<<>>, user_input) EXCEPT !.requested = MaxToolCalls - 1]

\* AGENTS["default"] with a turn for "hi", alone or next to a turn for "yo";
\* the hooks of this agent are the two example coroutines, which do not stream
InitPair ==
    /\ pc = "turn_start"
    /\ events = <<>>
    /\ ctx = CallbackContext
    /\ cb = NoFrame
    /\ tool = NoTool
    /\ agent = LLMAgent_init("None", "None")
    /\ turn = PairTurn("hi")
    /\ messages = <<>>
    /\ loopEvents = <<>>
    /\ modelCalls = <<>>
    /\ chat = NoChat
    /\ db = NoDb
    /\ other \in {NoOther,
                  Parked("turn_start", <<>>, CallbackContext, NoFrame,
                         PairTurn("yo"), <<>>, <<>>, <<>>)}
    /\ consumer = Reading
    /\ llm = NoLlm
    /\ storage = NoStorage

NextPair ==
    \/ TurnStart \/ HookStart \/ HookCall \/ HookAwait
    \/ TurnFallback \/ LoopStart \/ ModelFails \/ ModelRequestsTools \/ ModelAnswers
    \/ ToolCallStep \/ ToolRunStep \/ TurnAfter
    \/ Switch

SpecPair == InitPair /\ [][NextPair]_vars

----------------------------------------------------------------------------
(* Claims on concurrent turns (SpecPair) *)

\* the calls of process_turn of the state
Calls == {Running} \cup (IF other.present THEN {other} ELSE {})

\* the events of a stream that come from the reasoning loop
FromLoop(s) == SelectSeq(s, LAMBDA e : e.callback_type = "None" /\ e.type # "answer")

\* the call v works on its own input and its own message list: the list
\* opens with the system prompt and v's input as the agent's before hook
\* rewrites it, every provider call of v was
\* given a prefix of v's list, every response in it has its own results, and
\* the loop events of v's stream are the ones v's loop yielded
OwnState(v) ==
    /\ v.messages # <<>> =>
        /\ v.messages[1] = SystemMessage
        /\ v.messages[2] =
            UserMessage(StrV(v.turn.user_input \o " [Modified by Before Callback]"))
    /\ \A m \in DOMAIN v.modelCalls :
        /\ v.messages # <<>>
        /\ IsPrefix(v.modelCalls[m].messages, v.messages)
    /\ \A n \in 3..Len(v.messages) :
        v.messages[n].role = "tool" =>
            \E k \in 3..(n - 1) :
                /\ v.messages[k].role = "assistant"
                /\ n - k \in DOMAIN v.messages[k].tool_calls
                /\ v.messages[k].tool_calls[n - k].id = v.messages[n].tool_call_id
    /\ FromLoop(v.events) = FromLoop(v.loopEvents)

\* C28: under every interleaving of two turns on one agent, the agent is
\* only read, a step of one turn leaves the other turn as it is, and each
\* turn's stream and message list are built from its own input and its own
\* provider calls, as for a turn that runs alone
C28_TurnsDoNotInterfere ==
    /\ [][agent' = agent]_vars
    /\ [][other'.present = other.present
            /\ (other' # other => other' = Running)]_vars
    /\ [](\A v \in Calls : OwnState(v))

\* both turns have finished, each after a tool call, and they were
\* interleaved: the parked one finished while the other was in its loop
C28_Witness ==
    /\ other.present
    /\ pc = "done" /\ other.pc = "done"
    /\ Len(modelCalls) = 2 /\ Len(other.modelCalls) = 2
    /\ Count(events, "tool_result") = 1
    /\ Count(other.events, "tool_result") = 1

----------------------------------------------------------------------------
(* Claims on the order of the events of execute (SpecTool) *)

\* the part of execute that is running: 1 the tool_call event, 2 the before
\* hook, 3 the tool body, 4 the after hook, 5 the final event, 6 the end
PhaseOf(at, frame) ==
    CASE at = "exec_start" -> 1
      [] at = "exec_before" -> 2
      [] at \in {"cb_enter", "cb_call", "cb_stream", "cb_await", "cb_result"} ->
            IF frame.callback_type = "before_tool_callback" THEN 2 ELSE 4
      [] at \in {"exec_run", "tool_stream"} -> 3
      [] at = "exec_after" -> 4
      [] at = "exec_final" -> 5
      [] OTHER -> 6

\* a step hands its events to the caller behind the ones the caller has
Delivers ==
    /\ Len(events') >= Len(events)
    /\ SubSeq(events', 1, Len(events)) = events

\* the event a step delivers belongs to the part that is running
OfItsPhase ==
    events' # events =>
        LET e == events'[Len(events')]
        IN  /\ PhaseOf(pc, cb) = 1 => e = ToolCallEvent(tool.name, tool'.fn_args, tool.id)
            /\ PhaseOf(pc, cb) = 5 => (e.type = "tool_result" /\ e.tool_call_id = tool.id)
            /\ PhaseOf(pc, cb) \in 1..5

\* C31: execute hands every event over as it is produced, the parts of
\* execute follow each other in the order tool_call, before hook, tool body,
\* after hook, final tool_result and never go back; the first event is the
\* tool_call and the last one of a finished call is the tool_result
C31_PhasesInOrder ==
    /\ [][Delivers /\ OfItsPhase /\ PhaseOf(pc', cb') >= PhaseOf(pc, cb)]_vars
    /\ [](events # <<>> => events[1] = ToolCallEvent(tool.name, tool.fn_args, tool.id))
    /\ [](pc = "done" => events[Len(events)].type = "tool_result")

\* a finished call in which every part has handed over an event
C31_Witness ==
    /\ pc = "done"
    /\ \E i, j, k \in DOMAIN events :
        /\ 1 < i /\ i < j /\ j < k /\ k < Len(events)
        /\ events[i] = CallbackEvent("execute_callback",
                "Running before_tool_callback", "before_tool_callback")
        /\ tool.run.kind = "asyncgen" /\ tool.pos >= 1
        /\ events[j] = tool.run.yields[1]
        /\ events[k] = CallbackEvent("execute_callback",
                "Running after_tool_callback", "after_tool_callback")

----------------------------------------------------------------------------
(* Claims on the slots at the start of execute (SpecTool) *)

\* the caller passed a context that an earlier tool call has used
ContextWasUsed ==
    /\ tool.present
    /\ tool.given # NoneV
    /\ ~IsNone(tool.given.tool_input)
    /\ ~IsNone(tool.given.tool_result)

\* C32: execute begins by unsetting tool_input and tool_result, so what an
\* earlier call left in the context is never the effective arguments nor the
\* content of an event of this call, nor the value of a slot after the start
C32_StaleSlotsAreNotUsed ==
    /\ [][pc = "exec_start" =>
            (IsNone(ctx'.tool_input) /\ IsNone(ctx'.tool_result))]_vars
    /\ []((ContextWasUsed /\ pc # "exec_start") =>
            /\ ctx.tool_input # tool.given.tool_input
            /\ ctx.tool_result # tool.given.tool_result
            /\ tool.effective_args # tool.given.tool_input
            /\ \A i \in DOMAIN events :
                /\ events[i].content # tool.given.tool_result.v
                /\ events[i].tool_args # tool.given.tool_input)

\* a call on a used context, without hooks, whose tool set no result: the
\* final event carries the sentinel, not the result of the earlier call
C32_Witness ==
    /\ ContextWasUsed
    /\ pc = "done"
    /\ ~tool.before_tool_callback /\ ~tool.after_tool_callback
    /\ tool.effective_args = tool.fn_args
    /\ events[Len(events)].content = "Error: No result returned from tool execution."

----------------------------------------------------------------------------
(* LLM.call: src/app/agents/llm.py *)

\* the hook references of the LLM object, the context argument, and what the
\* provider call did: "None" (not made), "response", "raised", "no_choices"
LlmFrame(before, after, has_context) ==
    [present |-> TRUE, before_model_callback |-> before,
     after_model_callback |-> after, has_context |-> has_context,
     provider |-> "None"]

\* LLMCallParams(model=model, messages=messages, tools=...)
LLMCallParams == Val("params", "gpt-4o")

\* LLMCallResult(content=message.content, tool_calls=message.tool_calls, ...)
LLMCallResult == Val("result", "Hello")

\* what the provider call may do
ProviderOutcomes == {"response", "raised", "no_choices"}

\* "1. Initialize LLM and build tools": the two slots are written through
\* the context, which fails on a context that is None
LlmStart ==
    /\ pc = "llm_start"
    /\ IF llm.has_context
       THEN /\ ctx' = [ctx EXCEPT !.llm_params = LLMCallParams, !.llm_result = NoneV]
            /\ pc' = "llm_before"
       ELSE /\ ctx' = ctx
            /\ pc' = "raised"
    /\ UNCHANGED <<events, cb, tool, agent, turn, messages, loopEvents, modelCalls,
                   chat, db, other, consumer, llm, storage>>

\* "2. BEFORE MODEL CALLBACK"
LlmBefore ==
    /\ pc = "llm_before"
    /\ IF llm.before_model_callback
       THEN /\ cb' = Frame(TRUE, "llm_params", "before_model_callback", "llm_call")
            /\ pc' = "cb_enter"
       ELSE /\ cb' = cb
            /\ pc' = "llm_call"
    /\ UNCHANGED <<events, ctx, tool, agent, turn, messages, loopEvents, modelCalls,
                   chat, db, other, consumer, llm, storage>>

\* str(e) of the AttributeError for parameters that are no LLMCallParams
NoKwargs(params) ==
    "'" \o TypeName(params) \o "' object has no attribute 'to_openai_kwargs'"

\* a call that goes on to the after hook when the provider has failed
LlmCall_GoesOn ==
    /\ pc = "llm_call"
    /\ \E outcome \in ProviderOutcomes :
        /\ llm' = [llm EXCEPT !.provider = outcome]
        /\ ctx' = IF outcome = "response"
                  THEN [ctx EXCEPT !.llm_result = LLMCallResult] ELSE ctx
        /\ events' = events
        /\ pc' = "llm_after"
    /\ UNCHANGED <<cb, tool, agent, turn, messages, loopEvents, modelCalls,
                   chat, db, other, consumer, storage>>

\* "3. MAKE LLM CALL": the try block around to_openai_kwargs and call_api,
\* then response.choices[0].message outside of it, then the slot
LlmCall ==
    /\ pc = "llm_call"
    /\ IF ctx.llm_params.t # "params"
       THEN /\ llm' = [llm EXCEPT !.provider = "raised"]
            /\ events' = Append(events, PlainEvent("error", NoKwargs(ctx.llm_params)))
            /\ ctx' = ctx
            /\ pc' = "done"
       ELSE \E outcome \in ProviderOutcomes :
            /\ llm' = [llm EXCEPT !.provider = outcome]
            /\ CASE outcome = "raised" ->
                        /\ events' = Append(events, PlainEvent("error", "Connection error."))
                        /\ ctx' = ctx
                        /\ pc' = "done"
                 [] outcome = "no_choices" ->
                        /\ events' = events
                        /\ ctx' = ctx
                        /\ pc' = "raised"
                 [] OTHER ->
                        /\ events' = events
                        /\ ctx' = [ctx EXCEPT !.llm_result = LLMCallResult]
                        /\ pc' = "llm_after"
    /\ UNCHANGED <<cb, tool, agent, turn, messages, loopEvents, modelCalls,
                   chat, db, other, consumer, storage>>

\* "4. AFTER MODEL CALLBACK"
LlmAfter ==
    /\ pc = "llm_after"
    /\ IF llm.after_model_callback
       THEN /\ cb' = Frame(TRUE, "llm_result", "after_model_callback", "llm_check")
            /\ pc' = "cb_enter"
       ELSE /\ cb' = cb
            /\ pc' = "llm_check"
    /\ UNCHANGED <<events, ctx, tool, agent, turn, messages, loopEvents, modelCalls,
                   chat, db, other, consumer, llm, storage>>

\* if context.llm_result is None: the terminal error event
LlmCheck ==
    /\ pc = "llm_check"
    /\ events' = IF IsNone(ctx.llm_result)
                 THEN Append(events, PlainEvent("error", "LLM call failed without result"))
                 ELSE events
    /\ pc' = "done"
    /\ UNCHANGED <<ctx, cb, tool, agent, turn, messages, loopEvents, modelCalls,
                   chat, db, other, consumer, llm, storage>>

\* a call of LLM.call: hooks registered or not, a context that an earlier
\* call may have used, or no context
InitLlm ==
    /\ pc = "llm_start"
    /\ events = <<>>
    /\ ctx \in {CallbackContext,
                [CallbackContext EXCEPT !.llm_params = Val("params", "old"),
                                        !.llm_result = Val("result", "old")]}
    /\ cb = NoFrame
    /\ tool = NoTool
    /\ agent = NoAgent
    /\ turn = NoTurn
    /\ messages = <<>>
    /\ loopEvents = <<>>
    /\ modelCalls = <<>>
    /\ chat = NoChat
    /\ db = NoDb
    /\ other = NoOther
    /\ consumer = Reading
    /\ \E before \in BOOLEAN, after \in BOOLEAN, has_context \in BOOLEAN :
        llm = LlmFrame(before, after, has_context)
    /\ storage = NoStorage

NextLlm ==
    \/ LlmStart \/ LlmBefore \/ LlmCall \/ LlmAfter \/ LlmCheck
    \/ CbStart \/ CbCall \/ CbForward \/ CbStreamEnd \/ CbAwait \/ CbResult

SpecLlm == InitLlm /\ [][NextLlm]_vars

----------------------------------------------------------------------------
(* Claims on LLM.call (SpecLlm) *)

AfterModelHookRan ==
    \E i \in DOMAIN events :
        events[i] = CallbackEvent("execute_callback",
                        "Running after_model_callback", "after_model_callback")

\* C33: a call that has completed has set llm_result or has ended with an
\* error event; the step in which the provider call fails hands over one
\* error event and ends the call, and after it the after-model hook has not
\* run and llm_result is unset
C33_NoSilentCompletion ==
    /\ []((llm.present /\ pc = "done") =>
            \/ ~IsNone(ctx.llm_result)
            \/ (events # <<>> /\ events[Len(events)].type = "error"))
    /\ []((llm.present /\ llm.provider = "raised") =>
            /\ pc = "done"
            /\ events[Len(events)].type = "error"
            /\ ~AfterModelHookRan
            /\ IsNone(ctx.llm_result))
    /\ [][(pc = "llm_call" /\ llm'.provider = "raised") =>
            /\ Len(events') = Len(events) + 1
            /\ SubSeq(events', 1, Len(events)) = events]_vars

\* the provider failed after a before hook had handed over events of its own
C33_Witness ==
    /\ llm.present
    /\ llm.provider = "raised"
    /\ ctx.llm_params = LLMCallParams
    /\ llm.after_model_callback
    /\ Len(events) >= 3
    /\ pc = "done"

\* the after hook unset the result and the call ended with the error event
C33_WitnessUnset ==
    /\ llm.present
    /\ llm.provider = "response"
    /\ pc = "done"
    /\ IsNone(ctx.llm_result)
    /\ AfterModelHookRan

----------------------------------------------------------------------------
(* Claims on the answer of a turn with an after-turn hook (SpecTurn) *)

AfterHookStarted == \E i \in DOMAIN events : IsAfterStart(events[i])

\* what the before-turn phase delivered: the events in front of the loop's
\* events, which end right before the start of the after-turn hook
BeforePhase == SubSeq(events, 1, AfterStartAt - Len(loopEvents))

\* the events the after-turn hook handed over, as the consumer gets them
HookEmitted == [i \in DOMAIN turn.output |-> Emitted(turn.output[i])]

\* a finished turn whose loop answered, with an after-turn hook, and whose
\* before-turn phase delivered no answer event
AnsweredWithHook ==
    /\ pc = "done"
    /\ turn.has_answer
    /\ agent.after_agent_callback # "None"
    /\ AfterHookStarted
    /\ Count(BeforePhase, "answer") = 0

\* C34 as stated: if the after-turn hook raises, or completes without an
\* answer among its events, the stream of the turn holds no answer event
C34_NoAnswerIfHookRaises ==
    (AnsweredWithHook /\ ("after_agent_callback" \in turn.hook_raised
                           \/ Count(HookEmitted, "answer") = 0)) =>
        Count(events, "answer") = 0

\* C34: process_turn withholds the loop's answer from a turn with an
\* after-turn hook: behind the hook's start only events the hook handed over
\* and events of the dispatcher are delivered, and the stream holds no
\* answer event unless the hook handed one over, before raising or not; the
\* after-turn hook starts only when the loop produced an answer
C34_AnswerOnlyFromHook ==
    /\ (AfterHookStarted => turn.has_answer)
    /\ ((pc = "done" /\ turn.has_answer /\ agent.after_agent_callback # "None") =>
            AfterHookStarted)
    /\ AnsweredWithHook =>
        /\ IsPrefix(Delivered, HookEmitted)
        /\ Count(HookEmitted, "answer") = 0 => Count(events, "answer") = 0
        /\ Count(events, "answer") <= Count(HookEmitted, "answer")

\* the after-turn hook handed the answer over and raised then
C34_Witness ==
    /\ AnsweredWithHook
    /\ "after_agent_callback" \in turn.hook_raised
    /\ Count(HookEmitted, "answer") = 1
    /\ Count(events, "answer") = 1
    /\ events[Len(events)].type = "error"

----------------------------------------------------------------------------
(* Two calls of process_message on one conversation.  Each request has its *)
(* own generator and locals; the tables are the same.  One call runs, the  *)
(* other one is parked at an await or at its yield.                        *)

\* what belongs to one call of process_message
ParkedChat(at, evs, locals) ==
    [present |-> TRUE, pc |-> at, events |-> evs, chat |-> locals]

\* the streams of the agents of two calls on one conversation
PairStreams ==
    {<<>>,
     <<PlainEvent("answer", "Hello")>>,
     <<ToolCallEvent("search", DictV("{query: math}"), "call_1"),
       ToolResultEvent("search", "42", "call_1"),
       PlainEvent("answer", "Hello")>>}

\* the event loop lets the other call run
ChatSwitch ==
    /\ other.present
    /\ other.pc \notin {"done", "raised", "closed"}
    /\ pc' = other.pc
    /\ events' = other.events
    /\ chat' = other.chat
    /\ other' = ParkedChat(pc, events, chat)
    /\ UNCHANGED <<ctx, cb, tool, agent, turn, messages, loopEvents, modelCalls,
                   db, consumer, llm, storage>>

\* two requests on a conversation, with the same text or not
InitChats ==
    /\ pc = "pm_start"
    /\ events = <<>>
    /\ ctx = CallbackContext
    /\ cb = NoFrame
    /\ tool = NoTool
    /\ agent = NoAgent
    /\ turn = NoTurn
    /\ messages = <<>>
    /\ loopEvents = <<>>
    /\ modelCalls = <<>>
    /\ \E stream \in PairStreams, raises \in BOOLEAN :
        chat = Chat("hi", stream, raises)
    /\ db \in Conversations
    /\ \E content \in {"hi", "yo"}, stream \in PairStreams :
        other = ParkedChat("pm_start", <<>>, Chat(content, stream, FALSE))
    /\ consumer = Reading
    /\ llm = NoLlm
    /\ storage = NoStorage

NextChats ==
    \/ PmSaveUser \/ PmLoadHistory \/ PmPlaceholder \/ PmNext \/ PmTrace
    \/ PmYield \/ PmClientStops \/ PmFinal \/ ChatSwitch

SpecChats == InitChats /\ [][NextChats]_vars

----------------------------------------------------------------------------
(* Claims on the history handed to the agent (SpecChats) *)

\* the tables without one message
Without(table, id) ==
    [table EXCEPT !.messages = SelectSeq(@, LAMBDA row : row.id # id)]

\* the step in which the running call loads its history
LoadsHistory ==
    /\ pc = "pm_history"
    /\ pc' = "pm_placeholder"
    /\ chat'.user_msg_id = chat.user_msg_id

\* C35: the history a call of process_message hands to its agent is the
\* history of the conversation as persisted at that moment, without the
\* user message the call has saved itself
C35_HistoryExcludesOwnMessage ==
    [][LoadsHistory =>
        chat'.history = ChatService_get_history(Without(db, chat.user_msg_id))]_vars

\* the same for a call that no other call interleaves with
C35_SequentialHistory ==
    [][(LoadsHistory /\ db.messages[Len(db.messages)].id = chat.user_msg_id) =>
        chat'.history = ChatService_get_history(Without(db, chat.user_msg_id))]_vars

----------------------------------------------------------------------------
(* MemoryService, read side: src/app/services/memory_service.py            *)

\* traces of the assistant message whose history is rebuilt, at most
MaxTraces == 3

\* _tool_args_to_arguments_json
tool_args_to_arguments_json(tool_args) ==
    IF IsNone(tool_args) THEN "{}"
    ELSE IF IsStr(tool_args) THEN tool_args.v
    ELSE IF IsDict(tool_args) THEN JsonDumps(tool_args)
    ELSE "{\"value\": \"" \o Str(tool_args) \o "\"}"

\* _build_openai_tool_calls: calls or None
build_openai_tool_calls(traces) ==
    LET calls == SelectSeq(traces, LAMBDA t : t.type = "tool_call")
    IN  [i \in DOMAIN calls |->
            ToolCall(calls[i].tool_call_id, calls[i].tool_name,
                     tool_args_to_arguments_json(calls[i].tool_args))]

\* _build_openai_tool_result_messages
build_openai_tool_result_messages(traces) ==
    LET results == SelectSeq(traces, LAMBDA t : t.type = "tool_result")
    IN  [i \in DOMAIN results |->
            ToolMessage(results[i].tool_call_id, results[i].tool_name,
                        results[i].content)]

\* _first_trace_content: the first non-empty content of a trace of the type
first_trace_content(traces, trace_type) ==
    LET found == SelectSeq(traces, LAMBDA t : t.type = trace_type /\ t.content # "")
    IN  IF found = <<>> THEN NoneV ELSE StrV(found[1].content)

\* _assistant_message_to_openai
assistant_message_to_openai(table, msg) ==
    LET traces == TracesOf(table, msg.id)
        tool_calls == build_openai_tool_calls(traces)
        step == IF tool_calls # <<>>
                THEN <<Message("assistant", first_trace_content(traces, "thought"),
                               tool_calls, "None", "None")>>
                     \o build_openai_tool_result_messages(traces)
                ELSE <<>>
    IN  step \o (IF msg.content # ""
                 THEN <<Message("assistant", StrV(msg.content), <<>>, "None", "None")>>
                 ELSE <<>>)

\* _messages_to_openai_history
RECURSIVE messages_to_openai_history(_, _)
messages_to_openai_history(table, rows) ==
    IF rows = <<>> THEN <<>>
    ELSE (IF rows[1].role = "user" THEN <<UserMessage(StrV(rows[1].content))>>
          ELSE IF rows[1].role = "assistant"
          THEN assistant_message_to_openai(table, rows[1])
          ELSE <<>>)
         \o messages_to_openai_history(table, Tail(rows))

\* get_openai_history; to_openai_dict leaves out the keys that are None,
\* which is how a Message of the model writes an absent key
get_openai_history(table, exclude_message_ids) ==
    messages_to_openai_history(table,
        SelectSeq(table.messages, LAMBDA m : m.id \notin exclude_message_ids))

\* the traces an assistant message may have: thoughts, one of them without
\* text, two tool calls and their results
TraceEvents ==
    {PlainEvent("thought", "Let me search that."),
     PlainEvent("thought", ""),
     ToolCallEvent("search", DictV("{query: math}"), "call_1"),
     ToolCallEvent("search", DictV("{}"), "call_2"),
     ToolResultEvent("search", "42", "call_1"),
     ToolResultEvent("search", "7", "call_2")}

\* MemoryService.get_openai_history on the conversation
MemHistory ==
    /\ pc = "mem_start"
    /\ messages' = get_openai_history(db, {})
    /\ pc' = "done"
    /\ UNCHANGED <<events, ctx, cb, tool, agent, turn, loopEvents, modelCalls,
                   chat, db, other, consumer, llm, storage>>

\* ChatService._get_history on the conversation
ChatHistory ==
    /\ pc = "hist_start"
    /\ messages' = ChatService_get_history(db)
    /\ pc' = "done"
    /\ UNCHANGED <<events, ctx, cb, tool, agent, turn, loopEvents, modelCalls,
                   chat, db, other, consumer, llm, storage>>

\* a conversation of one persisted turn, and a call of one of the two
\* reconstructions
InitHistory ==
    /\ pc \in {"mem_start", "hist_start"}
    /\ events = <<>>
    /\ ctx = CallbackContext
    /\ cb = NoFrame
    /\ tool = NoTool
    /\ agent = NoAgent
    /\ turn = NoTurn
    /\ messages = <<>>
    /\ loopEvents = <<>>
    /\ modelCalls = <<>>
    /\ chat = NoChat
    /\ \E content \in {"", "Cats are great."}, evs \in SeqsUpTo(TraceEvents, MaxTraces) :
        db = [messages |-> <<MessageRow(1, "user", "Search for cats"),
                             MessageRow(2, "assistant", content)>>,
              traces |-> [i \in DOMAIN evs |-> TraceLog(2, evs[i])]]
    /\ other = NoOther
    /\ consumer = Reading
    /\ llm = NoLlm
    /\ storage = NoStorage

NextHistory == MemHistory \/ ChatHistory

SpecHistory == InitHistory /\ [][NextHistory]_vars

----------------------------------------------------------------------------
(* Claims on the reconstruction of history (SpecHistory) *)

\* the assistant message of the conversation and its traces by type
TurnRow == db.messages[2]
TracesOfType(type) == SelectSeq(TracesOf(db, TurnRow.id), LAMBDA t : t.type = type)
ThoughtsWithText == SelectSeq(TracesOfType("thought"), LAMBDA t : t.content # "")

\* what the reconstruction gave for the assistant message
Rebuilt == Tail(messages)

\* the final answer, if the message has content
FinalPart ==
    IF TurnRow.content # ""
    THEN <<Message("assistant", StrV(TurnRow.content), <<>>, "None", "None")>>
    ELSE <<>>

\* the reconstruction as stated, the content of the step that carries the
\* tool calls being one of `thoughts`
RebuiltAsStated(thoughts) ==
    /\ messages[1] = UserMessage(StrV("Search for cats"))
    /\ IF TracesOfType("tool_call") = <<>>
       THEN Rebuilt = FinalPart
       ELSE LET calls == TracesOfType("tool_call")
                results == TracesOfType("tool_result")
            IN  /\ Len(Rebuilt) = 1 + Len(results) + Len(FinalPart)
                /\ Rebuilt[1].role = "assistant"
                /\ Rebuilt[1].content \in thoughts
                /\ Len(Rebuilt[1].tool_calls) = Len(calls)
                /\ \A i \in DOMAIN calls :
                    /\ Rebuilt[1].tool_calls[i].id = calls[i].tool_call_id
                    /\ Rebuilt[1].tool_calls[i].name = calls[i].tool_name
                /\ \A i \in DOMAIN results :
                    /\ Rebuilt[1 + i].role = "tool"
                    /\ Rebuilt[1 + i].tool_call_id = results[i].tool_call_id
                    /\ Rebuilt[1 + i].content = StrV(results[i].content)
                /\ SubSeq(Rebuilt, 2 + Len(results), Len(Rebuilt)) = FinalPart

\* the first thought trace as content: its text, an empty text being given
\* as such or as no content; no content without a thought trace
FirstThought ==
    IF TracesOfType("thought") = <<>> THEN {NoneV}
    ELSE IF TracesOfType("thought")[1].content = "" THEN {NoneV, StrV("")}
    ELSE {StrV(TracesOfType("thought")[1].content)}

\* the first thought trace that has text
FirstThoughtWithText ==
    IF ThoughtsWithText = <<>> THEN {NoneV} ELSE {StrV(ThoughtsWithText[1].content)}

\* C36: for an assistant message with tool_call traces the reconstruction
\* gives one assistant entry with all tool calls in trace order and the first
\* thought as content if there is one, one tool entry per tool_result trace
\* in trace order, then the final answer if the content is not empty; without
\* tool_call traces only the final answer, and nothing for empty content
C36_HistoryIsRebuilt ==
    pc = "done" => RebuiltAsStated(FirstThought)

\* ChatService._get_history rebuilds the history so
C36_ChatServiceRebuilds ==
    (pc = "done" /\ messages = ChatService_get_history(db))
        => RebuiltAsStated(FirstThought)

\* MemoryService.get_openai_history does with the first thought that has text
C36_MemoryServiceRebuilds ==
    (pc = "done" /\ messages = get_openai_history(db, {}))
        => RebuiltAsStated(FirstThoughtWithText)

\* the two reconstructions agree when every thought trace has text
C36_SameWithoutEmptyThoughts ==
    (pc = "done" /\ Len(ThoughtsWithText) = Len(TracesOfType("thought")))
        => /\ RebuiltAsStated(FirstThought)
           /\ get_openai_history(db, {}) = ChatService_get_history(db)

----------------------------------------------------------------------------
(* Claims on persisting a turn and rebuilding its history *)

\* process_message, "4. Stream Agent Events" and "5. Update Assistant Message
\* with Final Content", on a whole stream: a trace per event that is not an
\* answer, the answers joined as the content of the assistant message
PersistTurn(user_input, stream) ==
    LET kept == SelectSeq(stream, LAMBDA e : e.type # "answer")
        chunks == [i \in DOMAIN Answers(stream) |-> Answers(stream)[i].content]
    IN  [messages |-> <<MessageRow(1, "user", user_input),
                        MessageRow(2, "assistant", Join(chunks))>>,
         traces |-> [i \in DOMAIN kept |-> TraceLog(2, kept[i])]]

\* every tool-role entry answers a tool call of an assistant entry before it,
\* and every tool call of an assistant entry has exactly one tool-role entry
\* after it
WellFormed(history) ==
    /\ \A i \in DOMAIN history :
        history[i].role = "tool" =>
            \E j \in 1..(i - 1) :
                /\ history[j].role = "assistant"
                /\ \E k \in DOMAIN history[j].tool_calls :
                    history[j].tool_calls[k].id = history[i].tool_call_id
    /\ \A j \in DOMAIN history :
        \A k \in DOMAIN history[j].tool_calls :
            Cardinality({i \in (j + 1)..Len(history) :
                            /\ history[i].role = "tool"
                            /\ history[i].tool_call_id = history[j].tool_calls[k].id}) = 1

\* the turn, or the call of execute that is its tool round, has run to its end
TurnCompleted == (turn.present \/ tool.present) /\ pc = "done"

\* the history rebuilt from the events so far, by either reconstruction
RebuiltByMemoryService == get_openai_history(PersistTurn("hi", events), {})
RebuiltByChatService == ChatService_get_history(PersistTurn("hi", events))

\* C37: the events of a completed turn, persisted and rebuilt, give a history
\* in which every tool-role entry answers a tool call of an earlier assistant
\* entry and every tool call has exactly one tool-role entry after it, also
\* when the tool streams events of its own
C37_RebuiltHistoryIsWellFormed ==
    TurnCompleted =>
        /\ WellFormed(RebuiltByMemoryService)
        /\ WellFormed(RebuiltByChatService)

\* every tool_result event of the stream carries the id of a call
ResultsCarryIds ==
    \A i \in DOMAIN events :
        events[i].type = "tool_result" => events[i].tool_call_id # "None"

\* the same for the turns whose tool_result events all carry an id
C37_WellFormedWithIds ==
    (TurnCompleted /\ ResultsCarryIds) =>
        /\ WellFormed(RebuiltByMemoryService)
        /\ WellFormed(RebuiltByChatService)

----------------------------------------------------------------------------
(* StorageService.refresh_citations_signed_urls                            *)
(* (src/app/services/storage_service.py).  The citations of the messages   *)
(* are taken in the order the three nested loops visit them.  Each signing *)
(* is a task of the event loop that takes the semaphore and hands          *)
(* generate_signed_url to a worker thread; the threads end in any order.   *)

\* citations of one call, at most
MaxCitations == 3

\* sem = asyncio.Semaphore(20), with the model's number of permits
SemaphoreValue == 2

\* Citation: the two fields the call reads and writes
Citation(gcs_path, url) == [gcs_path |-> gcs_path, url |-> url]

\* the citations of the model: without a path, with a path of an object (with
\* and without a url), with a path that is no gs:// path, with a bucket only
Citations ==
    {Citation(NoneV, NoneV), Citation(NoneV, StrV("old url")),
     Citation(StrV("gs://bucket/a.pdf"), NoneV),
     Citation(StrV("gs://bucket/a.pdf"), StrV("old url")),
     Citation(StrV("gs://bucket/b.pdf"), StrV("old url")),
     Citation(StrV("bucket/a.pdf"), StrV("old url")),
     Citation(StrV("gs://bucket"), NoneV)}

\* gcs_path.startswith("gs://")
StartsWithGs(gcs_path) ==
    gcs_path \in {"gs://bucket/a.pdf", "gs://bucket/b.pdf", "gs://bucket"}

\* gcs_path[5:].split("/", 1)
PathParts(gcs_path) ==
    CASE gcs_path = "gs://bucket/a.pdf" -> <<"bucket", "a.pdf">>
      [] gcs_path = "gs://bucket/b.pdf" -> <<"bucket", "b.pdf">>
      [] OTHER -> <<"bucket">>

\* what a signing task ends with: a value, or an exception
Returned(value) == [raised |-> FALSE, value |-> value]
Raised == [raised |-> TRUE, value |-> NoneV]

\* generate_signed_url: None for a path that is no object path; otherwise
\* the signed URL of the object, unless the client or the signing raises
generate_signed_url(gcs_path) ==
    IF ~StartsWithGs(gcs_path) THEN {Returned(NoneV)}
    ELSE IF Len(PathParts(gcs_path)) # 2 THEN {Returned(NoneV)}
    ELSE {Returned(StrV("https://storage.googleapis.com/"
                        \o PathParts(gcs_path)[1] \o "/" \o PathParts(gcs_path)[2]
                        \o "?X-Goog-Signature")),
          Raised}

\* the locals of the call: the citations, refs and pending (a task per
\* reference: created, signing in a thread, returned from the thread, done),
\* the permits of the semaphore, and given, the citations as they were passed
StorageFrame(citations) ==
    [present |-> TRUE, citations |-> citations, given |-> citations,
     refs |-> <<>>, pending |-> <<>>, results |-> <<>>, sem |-> 0]

\* the citations that have a gcs_path
RECURSIVE WithPath(_, _)
WithPath(citations, n) ==
    IF n = 0 THEN <<>>
    ELSE WithPath(citations, n - 1)
         \o (IF Truthy(citations[n].gcs_path) THEN <<n>> ELSE <<>>)

\* the commented-out version of the call: if (not c.url) and c.gcs_path
RECURSIVE WithPath_OnlyMissing(_, _)
WithPath_OnlyMissing(citations, n) ==
    IF n = 0 THEN <<>>
    ELSE WithPath_OnlyMissing(citations, n - 1)
         \o (IF ~Truthy(citations[n].url) /\ Truthy(citations[n].gcs_path)
             THEN <<n>> ELSE <<>>)

\* the call with the loops of its commented-out version
RefreshStart_OnlyMissing ==
    /\ pc = "rf_start"
    /\ LET refs == WithPath_OnlyMissing(storage.citations, Len(storage.citations))
       IN  /\ storage' = [storage EXCEPT
                            !.sem = SemaphoreValue,
                            !.refs = refs,
                            !.pending = [i \in DOMAIN refs |-> "created"],
                            !.results = [i \in DOMAIN refs |-> Raised]]
           /\ pc' = IF refs = <<>> THEN "done" ELSE "rf_gather"
    /\ UNCHANGED <<events, ctx, cb, tool, agent, turn, messages, loopEvents,
                   modelCalls, chat, db, other, consumer, llm>>

\* sem = asyncio.Semaphore(20); the loops that fill refs and pending
RefreshStart ==
    /\ pc = "rf_start"
    /\ LET refs == WithPath(storage.citations, Len(storage.citations))
       IN  /\ storage' = [storage EXCEPT
                            !.sem = SemaphoreValue,
                            !.refs = refs,
                            !.pending = [i \in DOMAIN refs |-> "created"],
                            !.results = [i \in DOMAIN refs |-> Raised]]
           /\ pc' = IF refs = <<>> THEN "done" ELSE "rf_gather"
    /\ UNCHANGED <<events, ctx, cb, tool, agent, turn, messages, loopEvents,
                   modelCalls, chat, db, other, consumer, llm>>

\* _sign without the semaphore
TaskSigns_NoSemaphore ==
    /\ pc = "rf_gather"
    /\ \E i \in DOMAIN storage.pending :
        /\ storage.pending[i] = "created"
        /\ storage' = [storage EXCEPT !.pending[i] = "signing"]
    /\ UNCHANGED <<pc, events, ctx, cb, tool, agent, turn, messages, loopEvents,
                   modelCalls, chat, db, other, consumer, llm>>

\* _sign: async with sem, then asyncio.to_thread(self.generate_signed_url, ...)
TaskSigns ==
    /\ pc = "rf_gather"
    /\ storage.sem > 0
    /\ \E i \in DOMAIN storage.pending :
        /\ storage.pending[i] = "created"
        /\ storage' = [storage EXCEPT !.sem = @ - 1, !.pending[i] = "signing"]
    /\ UNCHANGED <<pc, events, ctx, cb, tool, agent, turn, messages, loopEvents,
                   modelCalls, chat, db, other, consumer, llm>>

\* the worker thread of a task ends: generate_signed_url returned or raised
ThreadEnds ==
    /\ pc = "rf_gather"
    /\ \E i \in DOMAIN storage.pending :
        /\ storage.pending[i] = "signing"
        /\ \E r \in generate_signed_url(storage.citations[storage.refs[i]].gcs_path.v) :
            storage' = [storage EXCEPT !.pending[i] = "returned", !.results[i] = r]
    /\ UNCHANGED <<pc, events, ctx, cb, tool, agent, turn, messages, loopEvents,
                   modelCalls, chat, db, other, consumer, llm>>

\* the task goes on after its thread: it leaves `async with sem` and ends
TaskEnds ==
    /\ pc = "rf_gather"
    /\ \E i \in DOMAIN storage.pending :
        /\ storage.pending[i] = "returned"
        /\ storage' = [storage EXCEPT !.sem = @ + 1, !.pending[i] = "done"]
    /\ UNCHANGED <<pc, events, ctx, cb, tool, agent, turn, messages, loopEvents,
                   modelCalls, chat, db, other, consumer, llm>>

\* results = await asyncio.gather(*pending, return_exceptions=True), and
\* for c, r in zip(refs, results): the url of a citation whose task raised
\* is left alone
RefreshAssign ==
    /\ pc = "rf_gather"
    /\ \A i \in DOMAIN storage.pending : storage.pending[i] = "done"
    /\ storage' = [storage EXCEPT !.citations =
            [n \in DOMAIN storage.citations |->
                IF \E i \in DOMAIN storage.refs :
                        storage.refs[i] = n /\ ~storage.results[i].raised
                THEN [storage.citations[n] EXCEPT !.url =
                        storage.results[CHOOSE i \in DOMAIN storage.refs :
                                            storage.refs[i] = n].value]
                ELSE storage.citations[n]]]
    /\ pc' = "done"
    /\ UNCHANGED <<events, ctx, cb, tool, agent, turn, messages, loopEvents,
                   modelCalls, chat, db, other, consumer, llm>>

\* a call of refresh_citations_signed_urls on the citations of some messages
InitRefresh ==
    /\ pc = "rf_start"
    /\ events = <<>>
    /\ ctx = CallbackContext
    /\ cb = NoFrame
    /\ tool = NoTool
    /\ agent = NoAgent
    /\ turn = NoTurn
    /\ messages = <<>>
    /\ loopEvents = <<>>
    /\ modelCalls = <<>>
    /\ chat = NoChat
    /\ db = NoDb
    /\ other = NoOther
    /\ consumer = Reading
    /\ llm = NoLlm
    /\ \E citations \in SeqsUpTo(Citations, MaxCitations) :
        storage = StorageFrame(citations)

NextRefresh == RefreshStart \/ TaskSigns \/ ThreadEnds \/ TaskEnds \/ RefreshAssign

SpecRefresh == InitRefresh /\ [][NextRefresh]_vars

----------------------------------------------------------------------------
(* Claims on refresh_citations_signed_urls (SpecRefresh) *)

\* the call has returned
Refreshed == storage.present /\ pc = "done"

\* the task of citation n, if it has one
TasksOf(n) == {i \in DOMAIN storage.refs : storage.refs[i] = n}

\* the signing of citation n raised
SigningRaised(n) == \E i \in TasksOf(n) : storage.results[i].raised

\* C38: after the call, every citation with a gcs_path whose signing did not
\* raise has as url what generate_signed_url gave for its own gcs_path, also
\* when it had a url before, in whatever order the signings ended; a citation
\* without a gcs_path, or whose signing raised, has the url it had; the call
\* ends by returning
C38_UrlsAreRefreshed ==
    Refreshed =>
        \A n \in DOMAIN storage.given :
            LET before == storage.given[n]
                after == storage.citations[n]
            IN  /\ after.gcs_path = before.gcs_path
                /\ IF Truthy(before.gcs_path) /\ ~SigningRaised(n)
                   THEN Returned(after.url) \in generate_signed_url(before.gcs_path.v)
                   ELSE after.url = before.url

\* a call that replaced the url of one citation by the URL signed for its
\* path, left one alone whose signing raised, and left one without a path
C38_Witness ==
    /\ Refreshed
    /\ \E n \in DOMAIN storage.given :
        /\ storage.given[n] = Citation(StrV("gs://bucket/a.pdf"), StrV("old url"))
        /\ storage.citations[n].url =
                StrV("https://storage.googleapis.com/bucket/a.pdf?X-Goog-Signature")
    /\ \E n \in DOMAIN storage.given :
        /\ storage.given[n] = Citation(StrV("gs://bucket/b.pdf"), StrV("old url"))
        /\ SigningRaised(n)
        /\ storage.citations[n].url = StrV("old url")
    /\ \E n \in DOMAIN storage.given : ~Truthy(storage.given[n].gcs_path)

\* the signings that are in progress
InProgress ==
    IF storage.present
    THEN {i \in DOMAIN storage.pending : storage.pending[i] = "signing"}
    ELSE {}

\* C39: within one call, at no time are more signings in progress than the
\* semaphore has permits, however many citations have a gcs_path
C39_SigningsAreLimited ==
    Cardinality(InProgress) <= SemaphoreValue

\* as many signings in progress as there are permits, and a task waiting
C39_Witness ==
    /\ Cardinality(InProgress) = SemaphoreValue
    /\ \E i \in DOMAIN storage.pending : storage.pending[i] = "created"
    /\ Len(storage.refs) > SemaphoreValue

----------------------------------------------------------------------------
(* require_context (src/app/agents/utils.py) under run_callback_with_events *)

\* attributes a wrapper requires, at most
MaxRequired == 2

\* the names given to require_context: slots of the context, and a name the
\* context does not have
RequiredNames == {"modified_input", "tool_result", "llm_result", "user_id"}

\* a call of run_callback_with_events with a callback that require_context
\* wraps, on a context whose slots are unset, set to "" or set
InitGuard ==
    /\ pc = "cb_enter"
    /\ events = <<>>
    /\ \E required \in SeqsUpTo(RequiredNames, MaxRequired) :
        cb = [Frame(TRUE, "tool_input", "before_tool_callback", "done")
                EXCEPT !.required = required]
    /\ \E modified_input \in {NoneV, StrV(""), StrV("hi")},
          tool_result \in {NoneV, StrV(""), StrV("42")},
          llm_result \in {NoneV, Val("result", "rewritten")},
          tool_input \in {NoneV, DictV("{q: old}")} :
        ctx = [CallbackContext EXCEPT !.modified_input = modified_input,
                                      !.tool_result = tool_result,
                                      !.llm_result = llm_result,
                                      !.tool_input = tool_input]
    /\ tool = NoTool
    /\ agent = NoAgent
    /\ turn = NoTurn
    /\ messages = <<>>
    /\ loopEvents = <<>>
    /\ modelCalls = <<>>
    /\ chat = NoChat
    /\ db = NoDb
    /\ other = NoOther
    /\ consumer = Reading
    /\ llm = NoLlm
    /\ storage = NoStorage

NextGuard == CbStart \/ CbCall \/ CbForward \/ CbStreamEnd \/ CbAwait \/ CbResult

SpecGuard == InitGuard /\ [][NextGuard]_vars

----------------------------------------------------------------------------
(* Claims on require_context (SpecGuard) *)

\* the required attributes the context does not have or has as None, in the
\* order of the requirement
RECURSIVE UnsetOf(_)
UnsetOf(required) ==
    IF required = <<>> THEN <<>>
    ELSE (IF required[1] \notin DOMAIN ctx \/ ctx[required[1]] = NoneV
          THEN <<required[1]>> ELSE <<>>) \o UnsetOf(Tail(required))

\* how the exception names an attribute
Named(attr) ==
    IF attr \in DOMAIN ctx THEN attr ELSE attr \o " (attribute does not exist)"

\* the error event of a call that was refused for the attributes unset
Refusal(unset) ==
    CallbackEvent("error",
        "MissingContextAttributeError: Callback 'my_callback' requires context attributes "
        \o ListRepr([i \in DOMAIN unset |-> Named(unset[i])]) \o " to be set (not None)",
        cb.callback_type)

\* the body of the callback has not been started
BodyNotStarted == cb.run = NoBehaviour

\* the call of the wrapped callback on a context with an unset requirement
RefusedCall == pc = "cb_call" /\ pc' # "cb_call" /\ UnsetOf(cb.required) # <<>>

\* C40: a callback wrapped by require_context does not start its body when a
\* required attribute is missing or None: the call raises the error naming
\* exactly the unset attributes, run_callback_with_events gives exactly one
\* error event between the start and the result marker, and the context is
\* left as it was
C40_UnmetRequirementRefusesCall ==
    /\ [][RefusedCall =>
            /\ cb'.run = NoBehaviour
            /\ events' = Append(events, Refusal(UnsetOf(cb.required)))
            /\ ctx' = ctx]_vars
    /\ []((cb.present /\ UnsetOf(cb.required) # <<>> /\ BodyNotStarted /\ pc = "done")
            => /\ Len(events) = 3
               /\ events[1] = StartMarker
               /\ events[2] = Refusal(UnsetOf(cb.required))
               /\ events[3].type = "execute_callback_result")
    /\ [][(cb.present /\ BodyNotStarted /\ UnsetOf(cb.required) # <<>>)
            => (ctx' = ctx /\ cb'.run = NoBehaviour)]_vars

\* a refused call has ended: two attributes were required, one of them set
\* (to an empty string), and the error names the other one only
C40_Witness ==
    /\ cb.present /\ pc = "done" /\ BodyNotStarted
    /\ cb.required = <<"modified_input", "tool_result">>
    /\ ctx.modified_input = StrV("")
    /\ ctx.tool_result = NoneV
    /\ ctx.tool_input = DictV("{q: old}")
    /\ Len(events) = 3
    /\ events[2].content =
        "MissingContextAttributeError: Callback 'my_callback' requires context attributes ['tool_result'] to be set (not None)"

====
